---- MODULE Spec2Model ----
(***************************************************************************)
(* A model of the dbmigrator engine: the recipe set (dbmigrator_core        *)
(* recipe.rs), the Migrator (dbmigrator migrator.rs), the tokio-postgres    *)
(* adapter (drivers/tokio_postgres.rs) and the CLI's migrate loop           *)
(* (dbmigrator_cli main.rs).                                                *)
(*                                                                          *)
(* A version string "n" is modelled by the natural n and "n.0" by -n; the   *)
(* comparator is the function given to Migrator::new, simple_compare (the   *)
(* one the CLI passes) or version_compare.                                  *)
(* A checksum is a sequence of hex digits; Sha256Hex is injective.          *)
(* Option<T> is modelled by None == <<>> and Some(x) == <<x>>.              *)
(***************************************************************************)
EXTENDS Integers, Sequences, FiniteSets, TLC

VARIABLES
    loader,             \* RecipeLoadIter of load_sql_recipes: files left, file taken, detector
    comparator,         \* Migrator::version_comparator: the function given to Migrator::new
    migration_scripts,  \* the recipes loaded from the files, as given to set_recipes
    config,             \* Migrator.config
    recipes,            \* Migrator.recipes (sorted by set_recipes)
    last_log_id,        \* Migrator.last_log_id
    next_log_id,        \* Migrator.next_log_id
    raw_logs,           \* Migrator.raw_logs
    consolidated_logs,  \* Migrator.consolidated_logs
    updated_logs,       \* Migrator.updated_logs
    baseline_version,   \* Migrator.baseline_version
    plans,              \* Migrator.plans
    db,                 \* the database: log table (or none), its rows, executed recipe SQL
    tx,                 \* the open transaction of apply_plan (working copy), or NoTx
    adapter_result,     \* results of the AsyncClient calls of the last Migrator call
    pc,                 \* position of the caller (migrator_command / migrate)
    idx,                \* position of the `for plan in migrator.plans()` loop
    result,             \* result of the last Migrator call
    lastMigrate,        \* result of the previous migrate() against this database
    runs,               \* number of engine runs started
    plan_calls,         \* number of make_plan calls since the last read_changelog
    peers               \* the migrate loops of runs applying one plan concurrently, or NoPeers

vars == <<loader, comparator, migration_scripts, config, recipes, last_log_id, next_log_id, raw_logs, consolidated_logs,
          updated_logs, baseline_version, plans, db, tx, adapter_result, pc, idx, result,
          lastMigrate, runs, plan_calls, peers>>

migratorVars == <<loader, comparator, migration_scripts, config, recipes, last_log_id, next_log_id, raw_logs,
                  consolidated_logs, updated_logs, baseline_version, plans>>

-----------------------------------------------------------------------------
(* Bounds *)

MaxVersion == 3
ChecksumLen == 9
MaxRaw == 3
MaxRuns == 2
MaxPlanCalls == 2
MaxLines == 4

(* Program constants *)

MinChecksumPattern == 8

-----------------------------------------------------------------------------
(* Option, strings *)

None == <<>>
Some(x) == <<x>>
IsSome(o) == o # <<>>
Unwrap(o) == o[1]

Versions == 1..MaxVersion

starts_with(s, p) == Len(p) <= Len(s) /\ SubSeq(s, 1, Len(p)) = p

Sha256Hex(sql) == [i \in 1..ChecksumLen |-> sql]

\* A version string "n" is the natural n, and "n.0" is -n.
Major(v) == IF v < 0 THEN 0 - v ELSE v
StrKey(v) == IF v < 0 THEN 2 * Major(v) + 1 ELSE 2 * v

\* str::cmp: "1" < "1.0" < "2"
simple_compare(a, b) ==
    IF StrKey(a) < StrKey(b) THEN "Less" ELSE IF a = b THEN "Equal" ELSE "Greater"

\* version_compare::Version::compare: "1" and "1.0" are Eq
version_compare(a, b) ==
    IF Major(a) < Major(b) THEN "Less"
    ELSE IF Major(a) = Major(b) THEN "Equal" ELSE "Greater"

version_comparator(a, b) ==
    IF comparator = "version_compare" THEN version_compare(a, b) ELSE simple_compare(a, b)

LessOrEqual(o) == o \in {"Less", "Equal"}

-----------------------------------------------------------------------------
(* Changelog *)

Changelog(log_id, version, name, kind, checksum, apply_by, start_ts, finish_ts, revert_ts) ==
    [log_id |-> log_id, version |-> version, name |-> name, kind |-> kind,
     checksum |-> checksum, apply_by |-> apply_by, start_ts |-> start_ts,
     finish_ts |-> finish_ts, revert_ts |-> revert_ts]

InsertAt(seq, i, e) == SubSeq(seq, 1, i - 1) \o <<e>> \o SubSeq(seq, i, Len(seq))
RemoveAt(seq, i) == SubSeq(seq, 1, i - 1) \o SubSeq(seq, i + 1, Len(seq))

\* slice::binary_search_by on a sorted slice: the indices that compare Equal
\* (any of them may be returned) and the insertion point otherwise.
\* binary_search_by over the orderings the probe gives for the elements:
\* an index whose ordering is Equal, or the insertion point.
EqualIndices(ord) == {i \in DOMAIN ord : ord[i] = "Equal"}
InsertionPoint_end(ord) == Len(ord) + 1

\* binary_search_by returns Err(index): the place that keeps the vector sorted.
InsertionPoint(ord) == Cardinality({i \in DOMAIN ord : ord[i] = "Less"}) + 1

update_agg_log_any_checksum(agg_log, log) ==
    LET Ord(a) == version_comparator(a.version, log.version)
        eq == EqualIndices([j \in DOMAIN agg_log |-> Ord(agg_log[j])])
    IN  IF eq = {}
          THEN InsertAt(agg_log, InsertionPoint([j \in DOMAIN agg_log |-> Ord(agg_log[j])]), log)
        ELSE [agg_log EXCEPT ![CHOOSE i \in eq : TRUE] = log]

update_agg_log_drop_revert(agg_log, log) ==
    LET Ord(a) == version_comparator(a.version, log.version)
        eq == EqualIndices([j \in DOMAIN agg_log |-> Ord(agg_log[j])])
    IN  IF eq = {} /\ IsSome(log.checksum)
          THEN InsertAt(agg_log, InsertionPoint([j \in DOMAIN agg_log |-> Ord(agg_log[j])]), log)
        ELSE IF eq = {} THEN agg_log
        ELSE IF IsSome(log.checksum)
          THEN [agg_log EXCEPT ![CHOOSE i \in eq : TRUE] = log]
        ELSE agg_log

update_agg_log(agg_log, log) ==
    LET Ord(a) == version_comparator(a.version, log.version)
        eq == EqualIndices([j \in DOMAIN agg_log |-> Ord(agg_log[j])])
    IN  IF eq = {} /\ IsSome(log.checksum)
          THEN InsertAt(agg_log, InsertionPoint([j \in DOMAIN agg_log |-> Ord(agg_log[j])]), log)
        ELSE IF eq = {} THEN agg_log
        ELSE IF IsSome(log.checksum)
          THEN [agg_log EXCEPT ![CHOOSE i \in eq : TRUE] = log]
        ELSE RemoveAt(agg_log, CHOOSE i \in eq : TRUE)

find_agg_log(agg_log, version) ==
    LET Ord(a) == version_comparator(a.version, version)
        eq == EqualIndices([j \in DOMAIN agg_log |-> Ord(agg_log[j])])
    IN  IF eq = {} THEN None ELSE Some(agg_log[CHOOSE i \in eq : TRUE])

RECURSIVE FoldLogs(_, _)
FoldLogs(agg_log, logs) ==
    IF logs = <<>> THEN agg_log
    ELSE FoldLogs(update_agg_log(agg_log, Head(logs)), Tail(logs))

-----------------------------------------------------------------------------
(* Recipes *)

KindOrd(kind) ==
    CASE kind = "baseline" -> 0
      [] kind = "upgrade" -> 1
      [] kind = "revert" -> 2
      [] kind = "fixup" -> 3

CmpNat(a, b) == IF a < b THEN "Less" ELSE IF a = b THEN "Equal" ELSE "Greater"

ThenWith(o, p) == IF o = "Equal" THEN p ELSE o

\* RecipeScript with its RecipeMeta flattened into optional fields.
RecipeScript(version, name, sql, kind, old_checksum, maximum_version, new_version, new_name, new_checksum) ==
    [version |-> version, name |-> name, checksum |-> Sha256Hex(sql), sql |-> sql,
     kind |-> kind, old_checksum |-> old_checksum, maximum_version |-> maximum_version,
     new_version |-> new_version, new_name |-> new_name, new_checksum |-> new_checksum]

BaselineRecipe(version, name, sql) ==
    RecipeScript(version, name, sql, "baseline", None, None, None, None, None)
UpgradeRecipe(version, name, sql) ==
    RecipeScript(version, name, sql, "upgrade", None, None, None, None, None)
RevertRecipe(version, name, sql, old_checksum, maximum_version) ==
    RecipeScript(version, name, sql, "revert", Some(old_checksum), Some(maximum_version),
                 None, None, None)
FixupRecipe(version, name, sql, old_checksum, maximum_version, new_version, new_name, new_checksum) ==
    RecipeScript(version, name, sql, "fixup", Some(old_checksum), Some(maximum_version),
                 Some(new_version), Some(new_name), Some(new_checksum))

is_baseline(r) == r.kind = "baseline"
is_upgrade(r) == r.kind = "upgrade"

match_checksum(r, checksum) ==
    IF Len(checksum) < MinChecksumPattern THEN FALSE
    ELSE starts_with(r.checksum, checksum)

new_target_none(r) == None

new_target(r) ==
    IF r.kind = "fixup"
      THEN Some(<<Unwrap(r.new_version), Unwrap(r.new_name), Unwrap(r.new_checksum)>>)
      ELSE None

sorter(item, version, kind) ==
    ThenWith(version_comparator(item.version, version),
             CmpNat(KindOrd(item.kind), KindOrd(kind)))

finder(item, version, kind) == sorter(item, version, kind)


-----------------------------------------------------------------------------
(* order_recipes *)

SortRecipes_unsorted(input) == input

\* slice::sort_by is a stable sort: an element goes after every element that
\* does not compare Greater than it.
RECURSIVE SortRecipes(_)
SortRecipes(input) ==
    IF input = <<>> THEN <<>>
    ELSE LET n == Len(input)
             e == input[n]
             s == SortRecipes(SubSeq(input, 1, n - 1))
             k == Cardinality({i \in DOMAIN s : sorter(s[i], e.version, e.kind) # "Greater"})
         IN  InsertAt(s, k + 1, e)

\* First loop over a chunk: at most one baseline and one upgrade.
RECURSIVE RepeatedScan(_, _, _)
RepeatedScan(chunk, baseline, upgrade) ==
    IF chunk = <<>> THEN [err |-> None, baseline |-> baseline, upgrade |-> upgrade]
    ELSE LET item == Head(chunk)
         IN  IF is_baseline(item)
               THEN IF IsSome(baseline)
                      THEN [err |-> Some("RepeatedVersion"), baseline |-> baseline,
                            upgrade |-> upgrade]
                      ELSE RepeatedScan(Tail(chunk), Some(item), upgrade)
             ELSE IF is_upgrade(item)
               THEN IF IsSome(upgrade)
                      THEN [err |-> Some("RepeatedVersion"), baseline |-> baseline,
                            upgrade |-> upgrade]
                      ELSE RepeatedScan(Tail(chunk), baseline, Some(item))
             ELSE RepeatedScan(Tail(chunk), baseline, upgrade)

\* Second loop over a chunk: a revert/fixup must not refer to the chunk's
\* baseline or upgrade; the code then stores the item in `baseline`.
RECURSIVE ConflictScan(_, _, _)
ConflictScan(chunk, baseline, upgrade) ==
    IF chunk = <<>> THEN None
    ELSE LET item == Head(chunk)
         IN  IF IsSome(item.old_checksum)
               THEN IF IsSome(baseline)
                       /\ match_checksum(Unwrap(baseline), Unwrap(item.old_checksum))
                      THEN Some("ConflictedFixup")
                    ELSE IF IsSome(upgrade)
                       /\ match_checksum(Unwrap(upgrade), Unwrap(item.old_checksum))
                      THEN Some("ConflictedFixup")
                    ELSE ConflictScan(Tail(chunk), Some(item), upgrade)
               ELSE ConflictScan(Tail(chunk), baseline, upgrade)

\* chunk_by(|a, b| a.version() == b.version()) over the sorted recipes: the
\* chunks are the maximal runs of consecutive recipes of one version string.
ChunkLen(rs) ==
    LET other == {i \in DOMAIN rs : rs[i].version # rs[1].version}
    IN  IF other = {} THEN Len(rs)
        ELSE (CHOOSE i \in other : \A j \in other : i <= j) - 1

RECURSIVE CheckChunks(_)
CheckChunks(rs) ==
    IF rs = <<>> THEN None
    ELSE LET chunk == SubSeq(rs, 1, ChunkLen(rs))
             r1 == RepeatedScan(chunk, None, None)
         IN  IF IsSome(r1.err) THEN r1.err
             ELSE LET r2 == ConflictScan(chunk, r1.baseline, r1.upgrade)
                  IN  IF IsSome(r2) THEN r2
                      ELSE CheckChunks(SubSeq(rs, ChunkLen(rs) + 1, Len(rs)))

\* The recipes binary_search_by(sorter(a, new_version, Upgrade)) can return
\* for the new target of a Fixup: any Upgrade whose version compares Equal.
FixupTargetFound(rs, item) ==
    LET t == Unwrap(new_target(item))
    IN  {rs[i] : i \in EqualIndices([j \in DOMAIN rs |-> sorter(rs[j], t[1], "upgrade")])}

FixupTargetOk_version_only(found, item) == TRUE

\* recipes[index].name() == new_name && recipes[index].checksum() == new_checksum
FixupTargetOk(found, item) ==
    LET t == Unwrap(new_target(item))
    IN  found.name = t[2] /\ found.checksum = t[3]

\* The outcomes of order_recipes: the sorted recipes with the first error, one
\* outcome for each way the searches for the Fixup targets can land.
order_recipes(input) ==
    LET rs == SortRecipes(input)
        e1 == CheckChunks(rs)
        fixups == {i \in DOMAIN rs : IsSome(new_target(rs[i]))}
        CanPass(i) == \E u \in FixupTargetFound(rs, rs[i]) : FixupTargetOk(u, rs[i])
        CanFail(i) == \/ FixupTargetFound(rs, rs[i]) = {}
                      \/ \E u \in FixupTargetFound(rs, rs[i]) : ~FixupTargetOk(u, rs[i])
    IN  IF IsSome(e1) THEN {[err |-> e1, recipes |-> rs]}
        ELSE {[err |-> Some("InvalidFixupNewTarget"), recipes |-> rs] :
                i \in {k \in fixups : CanFail(k)}}
             \cup (IF \A i \in fixups : CanPass(i) THEN {[err |-> None, recipes |-> rs]}
                   ELSE {})

-----------------------------------------------------------------------------
(* Results *)

Ok == [ok |-> TRUE, kind |-> "Ok", code |-> "", detail |-> <<>>]
Err(kind, code) == [ok |-> FALSE, kind |-> kind, code |-> code, detail |-> <<>>]
ErrDetail(kind, detail) == [ok |-> FALSE, kind |-> kind, code |-> "", detail |-> detail]
NoResult == [ok |-> TRUE, kind |-> "None", code |-> "", detail |-> <<>>]

\* SQLSTATE codes of driver errors other than UNDEFINED_TABLE (42P01).
PgErrorCodes == {"08006", "42501"}
\* db.faults is the set of those the server raises in a behaviour.

-----------------------------------------------------------------------------
(* The recipe files and the databases the engine is run against *)


ApplyBy == Some("dbmigrator_cli")

Pool ==
    << UpgradeRecipe(3, "add_z", "add_z.sql"),
       FixupRecipe(2, "fixup_y", "fixup_y.sql", Sha256Hex("add_y.sql"), 3,
                   2, "add_y_fixed", Sha256Hex("add_y_fixed.sql")),
       BaselineRecipe(1, "init", "init.sql"),
       UpgradeRecipe(2, "add_y_fixed", "add_y_fixed.sql"),
       RevertRecipe(2, "revert_y", "revert_y.sql", Sha256Hex("add_y.sql"), 2),
       UpgradeRecipe(2, "add_y", "add_y.sql"),
       BaselineRecipe(2, "init2", "init2.sql"),
       FixupRecipe(2, "fixup_y8", "fixup_y8.sql",
                   SubSeq(Sha256Hex("add_y.sql"), 1, MinChecksumPattern), 3,
                   2, "add_y_fixed", Sha256Hex("add_y_fixed.sql")),
       RevertRecipe(1, "revert_init", "revert_init.sql", Sha256Hex("init.sql"), 2) >>

\* The recipe files of the runs that apply their plans.
RunPool == {i \in DOMAIN Pool : Pool[i].name \in {"add_z", "fixup_y", "init", "add_y_fixed", "revert_y"}}

SubSeqOf(seq, S) == SelectSeq([i \in DOMAIN seq |-> IF i \in S THEN Some(seq[i]) ELSE None],
                             IsSome)
Unwrapped(seq) == [i \in DOMAIN seq |-> Unwrap(seq[i])]
RecipeFiles(S) == Unwrapped(SubSeqOf(Pool, S))

\* Rows left in the log table by earlier runs (of an earlier recipe set).
OldRow(log_id, version, name, kind, sql) ==
    Changelog(log_id, version, Some(name), kind, Some(Sha256Hex(sql)), ApplyBy,
              Some(0), Some(0), None)
Row_init == OldRow(1, 1, "init", "baseline", "init.sql")
Row_add_y == OldRow(2, 2, "add_y", "upgrade", "add_y.sql")
Row_add_z == OldRow(3, 3, "add_z", "upgrade", "add_z.sql")

Database(table, rows, schema) ==
    [table |-> table, rows |-> rows, schema |-> schema, clock |-> 1, faults |-> {}]

NoTableDb == Database(FALSE, {}, <<>>)
EmptyDb == Database(TRUE, {}, <<>>)

RunDbs ==
    { NoTableDb, EmptyDb,
      Database(TRUE, {Row_init, Row_add_y}, <<"init.sql", "add_y.sql">>),
      Database(TRUE, {Row_init, Row_add_y, Row_add_z}, <<"init.sql", "add_y.sql", "add_z.sql">>) }

PlanDbs ==
    RunDbs \cup
    { Database(TRUE, {Row_init}, <<"init.sql">>),
      Database(TRUE, {Row_init, Row_add_z}, <<"init.sql", "add_z.sql">>) }

Config(auto_initialize, suggested_baseline_version, target_version, allow_fixes) ==
    [auto_initialize |-> auto_initialize, log_table_name |-> None,
     suggested_baseline_version |-> suggested_baseline_version,
     target_version |-> target_version, apply_by |-> ApplyBy,
     allow_fixes |-> allow_fixes, allow_out_of_order |-> FALSE]

OptVersions == {None} \cup {Some(v) : v \in Versions}

\* SELECT ... ORDER BY log_id ASC
RECURSIVE OrderByLogId(_)
OrderByLogId(rows) ==
    IF rows = {} THEN <<>>
    ELSE LET r == CHOOSE x \in rows : \A y \in rows : x.log_id <= y.log_id
         IN  <<r>> \o OrderByLogId(rows \ {r})

MaxLogId(rows) == CHOOSE n \in {r.log_id : r \in rows} : \A r \in rows : r.log_id <= n

NoTx == [open |-> FALSE]
NoPeers == <<>>

-----------------------------------------------------------------------------
(* Recipe files: parse_sql_metadata, RecipeScript::new, load_sql_recipes.    *)
(* The text of a file and of its name is the sequence of its pieces: "-",    *)
(* " ", ":" and words that hold none of them; sql is the sequence of the     *)
(* lines of the file.                                                        *)

\* str::trim
RECURSIVE trim_start(_)
trim_start(s) == IF s # <<>> /\ Head(s) = " " THEN trim_start(Tail(s)) ELSE s

RECURSIVE trim_end(_)
trim_end(s) ==
    IF s # <<>> /\ s[Len(s)] = " " THEN trim_end(SubSeq(s, 1, Len(s) - 1)) ELSE s

trim(s) == trim_end(trim_start(s))

\* splitn(2, ':'): the text before the first ':' and the text after it.
splitn2(s) ==
    LET colons == {i \in DOMAIN s : s[i] = ":"}
    IN  IF colons = {} THEN <<s>>
        ELSE LET k == CHOOSE i \in colons : \A j \in colons : i <= j
             IN  <<SubSeq(s, 1, k - 1), SubSeq(s, k + 1, Len(s))>>

\* HashMap::insert and HashMap::get
insert(metadata, key, value) ==
    [k \in DOMAIN metadata \cup {key} |-> IF k = key THEN value ELSE metadata[k]]

get(metadata, key) == IF key \in DOMAIN metadata THEN Some(metadata[key]) ELSE None

RECURSIVE parse_sql_metadata_all_lines(_, _)
parse_sql_metadata_all_lines(lines, metadata) ==
    IF lines = <<>> THEN metadata
    ELSE LET line == Head(lines)
             parts == splitn2(SubSeq(line, 3, Len(line)))
         IN  parse_sql_metadata_all_lines(Tail(lines),
                 IF starts_with(line, <<"-", "-">>) /\ Len(parts) = 2
                   THEN insert(metadata, trim(parts[1]), trim(parts[2]))
                   ELSE metadata)

RECURSIVE parse_sql_metadata(_, _)
parse_sql_metadata(lines, metadata) ==
    IF lines = <<>> THEN metadata
    ELSE LET line == Head(lines)
         IN  IF ~starts_with(line, <<"-", "-">>) THEN metadata
             ELSE LET parts == splitn2(SubSeq(line, 3, Len(line)))
                  IN  parse_sql_metadata(Tail(lines),
                          IF Len(parts) = 2
                            THEN insert(metadata, trim(parts[1]), trim(parts[2]))
                            ELSE metadata)

\* RecipeKind::from_str
from_str(s) ==
    CASE s = <<"baseline">> -> Some("baseline")
      [] s = <<"upgrade">> -> Some("upgrade")
      [] s = <<"revert">> -> Some("revert")
      [] s = <<"fixup">> -> Some("fixup")
      [] OTHER -> None

\* hasher.update(&*sql): the text RecipeScript::new hashes, of its arguments.
hasher_update_named(version, name, sql) == <<name, sql>>

hasher_update(version, name, sql) == sql

recipe_kind_default_first(meta_kind, default_kind) ==
    IF IsSome(default_kind) THEN default_kind
    ELSE IF IsSome(meta_kind) THEN from_str(Unwrap(meta_kind)) ELSE None

\* `let mut kind = default_kind; if let Some(meta_kind) = .. { kind = from_str? }`:
\* None stands for the error of from_str as well as for no kind.
recipe_kind(meta_kind, default_kind) ==
    IF IsSome(meta_kind) THEN from_str(Unwrap(meta_kind)) ELSE default_kind

unwrap_or_file_version(value, file_version, version) ==
    IF IsSome(value) THEN Unwrap(value) ELSE file_version

\* metadata.get(..).unwrap_or(&version), version being the one after the override
unwrap_or_version(value, file_version, version) ==
    IF IsSome(value) THEN Unwrap(value) ELSE version

\* RecipeScript::new: [res, recipe]
RecipeScript_new(file_version, file_name, sql, default_kind) ==
    LET checksum == Sha256Hex(hasher_update(file_version, file_name, sql))
        metadata == parse_sql_metadata(sql, <<>>)
        Meta(key) == get(metadata, <<key>>)
        version == IF IsSome(Meta("version")) THEN Unwrap(Meta("version")) ELSE file_version
        name == IF IsSome(Meta("name")) THEN Unwrap(Meta("name")) ELSE file_name
        k == recipe_kind(Meta("kind"), default_kind)
        maximum_version == unwrap_or_version(Meta("maximum_version"), file_version, version)
        new_version == unwrap_or_version(Meta("new_version"), file_version, version)
        Loaded(r) == [res |-> Ok, recipe |-> [r EXCEPT !.checksum = checksum]]
        Failed(e) == [res |-> Err(e, ""), recipe |-> None]
    IN  CASE k = Some("baseline") -> Loaded(BaselineRecipe(version, name, sql))
          [] k = Some("upgrade") -> Loaded(UpgradeRecipe(version, name, sql))
          [] k = Some("revert") ->
               IF IsSome(Meta("old_checksum"))
                 THEN Loaded(RevertRecipe(version, name, sql,
                                          Unwrap(Meta("old_checksum")), maximum_version))
                 ELSE Failed("InvalidRevertMeta")
          [] k = Some("fixup") ->
               IF /\ IsSome(Meta("old_checksum")) /\ IsSome(Meta("new_name"))
                  /\ IsSome(Meta("new_checksum"))
                 THEN Loaded(FixupRecipe(version, name, sql,
                                         Unwrap(Meta("old_checksum")), maximum_version,
                                         new_version, Unwrap(Meta("new_name")),
                                         Unwrap(Meta("new_checksum"))))
                 ELSE Failed("InvalidFixupMeta")
          [] OTHER -> Failed("InvalidRecipeKind")

simple_kind_detector(name) ==
    IF starts_with(name, <<"baseline">>) THEN Some("baseline")
    ELSE IF starts_with(name, <<"revert">>) THEN Some("revert")
    ELSE IF starts_with(name, <<"fixup">>) THEN Some("fixup")
    ELSE Some("upgrade")

\* RecipeLoadIter::load of a file [stem, sql]: stem is the (version, name) the
\* pattern captures in the file stem, or None when the stem does not match.
load(path, kind_detector) ==
    IF ~IsSome(path.stem) THEN [res |-> Err("InvalidFilename", ""), recipe |-> None]
    ELSE LET version == Unwrap(path.stem)[1]
             name == Unwrap(path.stem)[2]
             default_kind == IF kind_detector = "simple_kind_detector"
                               THEN simple_kind_detector(name) ELSE None
         IN  RecipeScript_new(version, name, path.sql, default_kind)

NoLoader == [inner |-> <<>>, path |-> None, kind_detector |-> "none"]

\* One turn of the loop of load_sql_recipes: the next file is loaded and its
\* recipe pushed, or the error returned.
LoadNext ==
    /\ pc = "load"
    /\ loader.inner # <<>>
    /\ LET path == Head(loader.inner)
           r == load(path, loader.kind_detector)
       IN  /\ loader' = [loader EXCEPT !.inner = Tail(@), !.path = Some(path)]
           /\ IF r.res.ok
                THEN /\ migration_scripts' = Append(migration_scripts, r.recipe)
                     /\ UNCHANGED <<pc, result>>
                ELSE /\ pc' = "failed_load"
                     /\ result' = r.res
                     /\ UNCHANGED migration_scripts
    /\ UNCHANGED <<peers, comparator, config, recipes, last_log_id, next_log_id, raw_logs,
                   consolidated_logs, updated_logs, baseline_version, plans, db, tx,
                   adapter_result, idx, lastMigrate, runs, plan_calls>>

\* The iterator is exhausted: load_sql_recipes returns Ok(()).
LoadDone ==
    /\ pc = "load"
    /\ loader.inner = <<>>
    /\ pc' = "new"
    /\ result' = Ok
    /\ UNCHANGED <<peers, migratorVars, db, tx, adapter_result, idx, lastMigrate, runs, plan_calls>>

-----------------------------------------------------------------------------
(* Migrator::new *)

NewMigrator(cfg) ==
    /\ config = cfg
    /\ recipes = <<>>
    /\ last_log_id = 0
    /\ next_log_id = 1
    /\ raw_logs = <<>>
    /\ consolidated_logs = <<>>
    /\ updated_logs = <<>>
    /\ baseline_version = None
    /\ plans = <<>>

InitCaller ==
    /\ tx = NoTx
    /\ adapter_result = <<>>
    /\ idx = 1
    /\ result = NoResult
    /\ lastMigrate = "none"
    /\ runs = 1
    /\ plan_calls = 0
    /\ peers = NoPeers


-----------------------------------------------------------------------------
(* Migrator::set_recipes *)

set_recipes(input) ==
    \E r \in order_recipes(input) :
        /\ pc = "new"
        /\ IF IsSome(r.err)
             THEN /\ result' = Err(Unwrap(r.err), "")
                  /\ pc' = "failed_recipes"
                  /\ UNCHANGED recipes
             ELSE /\ recipes' = r.recipes
                  /\ result' = Ok
                  /\ pc' = "ready"
        /\ UNCHANGED <<peers, loader, comparator, migration_scripts, config, last_log_id, next_log_id, raw_logs, consolidated_logs,
                       updated_logs, baseline_version, plans, db, tx, adapter_result,
                       idx, lastMigrate, runs, plan_calls>>

SetRecipes == \E S \in SUBSET (DOMAIN Pool) : set_recipes(RecipeFiles(S))

SetRecipesRun == \E S \in SUBSET RunPool : set_recipes(RecipeFiles(S))

-----------------------------------------------------------------------------
(* AsyncClient for tokio_postgres::Client: last_log_id, get_changelog *)

last_log_id_results_pg_error(d) ==
    (IF d.table
       THEN {[res |-> Ok, value |-> IF d.rows = {} THEN 0 ELSE MaxLogId(d.rows)]}
       ELSE {[res |-> Err("PgError", "42P01"), value |-> 0]})
    \cup {[res |-> Err("PgError", c), value |-> 0] : c \in d.faults}

\* The possible results of last_log_id: max(log_id), 0 for an empty table,
\* NoLogTable for SQLSTATE UNDEFINED_TABLE, PgError otherwise.
last_log_id_results(d) ==
    (IF d.table
       THEN {[res |-> Ok, value |-> IF d.rows = {} THEN 0 ELSE MaxLogId(d.rows)]}
       ELSE {[res |-> Err("NoLogTable", ""), value |-> 0]})
    \cup {[res |-> Err("PgError", c), value |-> 0] : c \in d.faults}

get_changelog_results_no_create(d) ==
    {[res |-> Ok, value |-> OrderByLogId(d.rows), db |-> d]}
    \cup {[res |-> Err("PgError", c), value |-> <<>>, db |-> d] : c \in d.faults}

\* The possible results of get_changelog: in one transaction CREATE TABLE IF NOT
\* EXISTS, then the rows in log_id order; an error rolls the creation back.
get_changelog_results(d) ==
    {[res |-> Ok, value |-> OrderByLogId(d.rows), db |-> [d EXCEPT !.table = TRUE]]}
    \cup {[res |-> Err("PgError", c), value |-> <<>>, db |-> d] : c \in d.faults}

-----------------------------------------------------------------------------
(* Migrator::read_changelog *)

Recovers_always(res) == res.kind = "NoLogTable"

\* The one error read_changelog recovers from.
Recovers(res) == res.kind = "NoLogTable" /\ config.auto_initialize

ReadChangelog ==
    /\ pc = "ready"
    /\ \E r1 \in last_log_id_results(db) :
         IF ~r1.res.ok /\ ~Recovers(r1.res)
           THEN /\ result' = r1.res
                /\ adapter_result' = <<r1.res>>
                /\ pc' = "failed_read"
                /\ UNCHANGED <<last_log_id, next_log_id, raw_logs, consolidated_logs,
                               updated_logs, plans, db, plan_calls>>
           ELSE \E r2 \in get_changelog_results(db) :
                  /\ last_log_id' = (IF r1.res.ok THEN r1.value ELSE 0)
                  /\ next_log_id' = last_log_id' + 1
                  /\ adapter_result' = <<r1.res, r2.res>>
                  /\ db' = r2.db
                  /\ IF r2.res.ok
                       THEN /\ raw_logs' = r2.value
                            /\ consolidated_logs' = FoldLogs(<<>>, r2.value)
                            /\ updated_logs' = consolidated_logs'
                            /\ plans' = <<>>
                            /\ result' = Ok
                            /\ pc' = "read"
                            /\ plan_calls' = 0
                       ELSE /\ result' = r2.res
                            /\ pc' = "failed_read"
                            /\ UNCHANGED <<raw_logs, consolidated_logs, updated_logs,
                                           plans, plan_calls>>
    /\ UNCHANGED <<peers, loader, comparator, migration_scripts, config, recipes, baseline_version, tx, idx, lastMigrate, runs>>

-----------------------------------------------------------------------------
(* Migrator::make_plan *)

MigrationPlan_no_revert_id(recipe, log_id_to_revert, revert_log, apply_log) ==
    [recipe |-> recipe, log_id_to_revert |-> None,
     revert_log |-> revert_log, apply_log |-> apply_log]

MigrationPlan(recipe, log_id_to_revert, revert_log, apply_log) ==
    [recipe |-> recipe, log_id_to_revert |-> log_id_to_revert,
     revert_log |-> revert_log, apply_log |-> apply_log]

\* The slices recipes_for_version can return: the binary search by version may
\* land on any recipe of that version (`first`); the slice runs from there up to
\* and including the first recipe of a greater version.
recipes_for_version(version) ==
    LET Ord(a) == version_comparator(a.version, version)
        eq == EqualIndices([j \in DOMAIN recipes |-> Ord(recipes[j])])
        Greater(first) == {i \in first..Len(recipes) :
                             version_comparator(recipes[i].version, version) = "Greater"}
        Last(first) == IF Greater(first) = {} THEN Len(recipes)
                       ELSE CHOOSE i \in Greater(first) : \A j \in Greater(first) : i <= j
    IN  IF eq = {} THEN {<<>>}
        ELSE {SubSeq(recipes, first, Last(first)) : first \in eq}

match_fix_recipe(log_version, log_checksum, recipe, current_version) ==
    IF IsSome(recipe.old_checksum) /\ IsSome(recipe.maximum_version)
      THEN /\ log_version = recipe.version
           /\ log_checksum = Unwrap(recipe.old_checksum)
           /\ LessOrEqual(version_comparator(current_version,
                                             Unwrap(recipe.maximum_version)))
      ELSE FALSE

\* fixes.iter().find(..): the first recipe of the slice that matches the log entry.
FindFix(fixes, log, current_version) ==
    LET hits == {i \in DOMAIN fixes :
                   match_fix_recipe(log.version, Unwrap(log.checksum), fixes[i],
                                    current_version)}
    IN  IF hits = {} THEN None
        ELSE Some(fixes[CHOOSE i \in hits : \A j \in hits : i <= j])

\* The walk of Phase A over updated_logs[1..i] from the newest entry down: the
\* (entry, recipe) pairs it can stop at, or None when it finds no match.
\* current_version is the newest version of updated_logs throughout the walk.
RECURSIVE FixWalk_oldest(_, _)
FixWalk_oldest(logs, i) ==
    IF i = 0 THEN {None}
    ELSE UNION { IF IsSome(older) THEN {older}
                 ELSE {IF IsSome(fix) THEN Some([log |-> logs[i], fix |-> Unwrap(fix)])
                       ELSE None :
                       fix \in {FindFix(fixes, logs[i], logs[Len(logs)].version) :
                                  fixes \in recipes_for_version(logs[i].version)}}
                 : older \in FixWalk_oldest(logs, i - 1) }

RECURSIVE FixWalk(_, _)
FixWalk(logs, i) ==
    IF i = 0 THEN {None}
    ELSE UNION { IF IsSome(fix) THEN {Some([log |-> logs[i], fix |-> Unwrap(fix)])}
                 ELSE FixWalk(logs, i - 1) :
                 fix \in {FindFix(fixes, logs[i], logs[Len(logs)].version) :
                            fixes \in recipes_for_version(logs[i].version)} }

PhaseA_apply_row_only(st, found) ==
    IF ~IsSome(found) THEN st
    ELSE LET log == Unwrap(found).log
             fix == Unwrap(found).fix
             revert_log == Changelog(st.next_log_id, log.version, Some(fix.name), fix.kind,
                                     None, config.apply_by, None, None, None)
             target == new_target(fix)
             apply_log == IF IsSome(target)
                            THEN Some(Changelog(st.next_log_id + 1, Unwrap(target)[1],
                                                Some(Unwrap(target)[2]), fix.kind,
                                                Some(Unwrap(target)[3]), config.apply_by,
                                                None, None, None))
                            ELSE None
             new_logs == <<revert_log>> \o apply_log
         IN  [next_log_id |-> st.next_log_id + 1 + Len(apply_log),
              updated_logs |-> FoldLogs(st.updated_logs, apply_log),
              plans |-> Append(st.plans,
                               MigrationPlan(fix, Some(log.log_id), Some(revert_log),
                                             apply_log))]

\* Phase A for one outcome of the walk, on the planner state
\* st = [next_log_id, updated_logs, plans].
PhaseA(st, found) ==
    IF ~IsSome(found) THEN st
    ELSE LET log == Unwrap(found).log
             fix == Unwrap(found).fix
             revert_log == Changelog(st.next_log_id, log.version, Some(fix.name), fix.kind,
                                     None, config.apply_by, None, None, None)
             target == new_target(fix)
             apply_log == IF IsSome(target)
                            THEN Some(Changelog(st.next_log_id + 1, Unwrap(target)[1],
                                                Some(Unwrap(target)[2]), fix.kind,
                                                Some(Unwrap(target)[3]), config.apply_by,
                                                None, None, None))
                            ELSE None
             new_logs == <<revert_log>> \o apply_log
         IN  [next_log_id |-> st.next_log_id + 1 + Len(apply_log),
              updated_logs |-> FoldLogs(st.updated_logs, new_logs),
              plans |-> Append(st.plans,
                               MigrationPlan(fix, Some(log.log_id), Some(revert_log),
                                             apply_log))]

baseline_recipe_first ==
    LET baselines == {i \in DOMAIN recipes : is_baseline(recipes[i])}
    IN  IF baselines = {} THEN [res |-> Err("NoBaseline", ""), recipe |-> None]
        ELSE [res |-> Ok,
              recipe |-> Some(recipes[CHOOSE i \in baselines :
                                        \A j \in baselines : i <= j])]

baseline_recipe ==
    IF IsSome(config.suggested_baseline_version)
      THEN LET Ord(a) == finder(a, Unwrap(config.suggested_baseline_version), "baseline")
               eq == EqualIndices([j \in DOMAIN recipes |-> Ord(recipes[j])])
           IN  IF eq = {} THEN [res |-> Err("UnknownBaseline", ""), recipe |-> None]
               ELSE [res |-> Ok, recipe |-> Some(recipes[CHOOSE i \in eq : TRUE])]
      ELSE LET baselines == {i \in DOMAIN recipes : is_baseline(recipes[i])}
           IN  IF baselines = {} THEN [res |-> Err("NoBaseline", ""), recipe |-> None]
               ELSE [res |-> Ok,
                     recipe |-> Some(recipes[CHOOSE i \in baselines :
                                               \A j \in baselines : j <= i])]

PlanApply_same_id(st, recipe) ==
    LET apply_log == Changelog(st.next_log_id, recipe.version, Some(recipe.name),
                               recipe.kind, Some(recipe.checksum), config.apply_by,
                               None, None, None)
    IN  [next_log_id |-> st.next_log_id,
         updated_logs |-> update_agg_log(st.updated_logs, apply_log),
         plans |-> Append(st.plans, MigrationPlan(recipe, None, None, Some(apply_log)))]

\* Apply row of a Baseline or Upgrade recipe, projected and planned.
PlanApply(st, recipe) ==
    LET apply_log == Changelog(st.next_log_id, recipe.version, Some(recipe.name),
                               recipe.kind, Some(recipe.checksum), config.apply_by,
                               None, None, None)
    IN  [next_log_id |-> st.next_log_id + 1,
         updated_logs |-> update_agg_log(st.updated_logs, apply_log),
         plans |-> Append(st.plans, MigrationPlan(recipe, None, None, Some(apply_log)))]

SkipWhile_none(seq, p) == seq

\* Iterator::skip_while, Iterator::take_while
SkipWhile(seq, p) ==
    LET stop == {i \in DOMAIN seq : ~p[i]}
    IN  IF stop = {} THEN <<>>
        ELSE SubSeq(seq, CHOOSE i \in stop : \A j \in stop : i <= j, Len(seq))
TakeWhile(seq, p) ==
    LET stop == {i \in DOMAIN seq : ~p[i]}
    IN  IF stop = {} THEN seq
        ELSE SubSeq(seq, 1, (CHOOSE i \in stop : \A j \in stop : i <= j) - 1)

NotAfter_strict(last_version, r) == version_comparator(r.version, last_version) = "Less"

NotAfter(last_version, r) == LessOrEqual(version_comparator(r.version, last_version))

WithinTarget_unbounded(r) == TRUE

WithinTarget(r) ==
    IF IsSome(config.target_version)
      THEN LessOrEqual(version_comparator(r.version, Unwrap(config.target_version)))
      ELSE TRUE

\* The recipes Phase C plans, in order.
PendingUpgrades(last_version) ==
    LET skipped == SkipWhile(recipes, [i \in DOMAIN recipes |->
                                         NotAfter(last_version, recipes[i])])
        taken == TakeWhile(skipped, [i \in DOMAIN skipped |-> WithinTarget(skipped[i])])
    IN  SelectSeq(taken, is_upgrade)

RECURSIVE PhaseC(_, _)
PhaseC(st, pending) ==
    IF pending = <<>> THEN st
    ELSE PhaseC(PlanApply(st, Head(pending)), Tail(pending))

NeedsBaseline_single(logs) == Len(logs) <= 1

\* `if self.updated_logs.len() > 0 { .. } else { baseline }`
NeedsBaseline(logs) == Len(logs) = 0

PlannerState == [next_log_id |-> next_log_id, updated_logs |-> updated_logs, plans |-> plans]

MakePlan ==
    /\ pc \in {"read", "planned"}
    /\ plan_calls < MaxPlanCalls
    /\ plan_calls' = plan_calls + 1
    /\ \E found \in (IF config.allow_fixes THEN FixWalk(updated_logs, Len(updated_logs))
                     ELSE {None}) :
         LET a == PhaseA(PlannerState, found)
         IN  IF ~NeedsBaseline(a.updated_logs)
               THEN LET c == PhaseC(a, PendingUpgrades(a.updated_logs[Len(a.updated_logs)].version))
                    IN  /\ baseline_version' = Some(a.updated_logs[1].version)
                        /\ next_log_id' = c.next_log_id
                        /\ updated_logs' = c.updated_logs
                        /\ plans' = c.plans
                        /\ result' = Ok
                        /\ pc' = "planned"
             ELSE IF ~baseline_recipe.res.ok
               THEN /\ next_log_id' = a.next_log_id
                    /\ updated_logs' = a.updated_logs
                    /\ plans' = a.plans
                    /\ result' = baseline_recipe.res
                    /\ pc' = "failed_plan"
                    /\ UNCHANGED baseline_version
             ELSE LET b == PlanApply(a, Unwrap(baseline_recipe.recipe))
                      c == PhaseC(b, PendingUpgrades(Unwrap(baseline_recipe.recipe).version))
                  IN  /\ baseline_version' = Some(Unwrap(baseline_recipe.recipe).version)
                      /\ next_log_id' = c.next_log_id
                      /\ updated_logs' = c.updated_logs
                      /\ plans' = c.plans
                      /\ result' = Ok
                      /\ pc' = "planned"
    /\ UNCHANGED <<peers, loader, comparator, migration_scripts, config, recipes, last_log_id, raw_logs, consolidated_logs, db, tx,
                   adapter_result, idx, lastMigrate, runs>>

-----------------------------------------------------------------------------
(* Planning over recipe sets, configurations and databases *)

\* The recipe sets set_recipes accepts, as it stores them.
AcceptedRecipes(files) ==
    {r.recipes : r \in {q \in UNION {order_recipes(RecipeFiles(S)) : S \in SUBSET files} :
                          ~IsSome(q.err)}}

PlanRecipes == AcceptedRecipes(DOMAIN Pool)
RunRecipes == AcceptedRecipes(RunPool)

\* A Migrator after new and a successful set_recipes.
ReadyMigrator(cfg, rs) ==
    /\ config = cfg
    /\ recipes = rs
    /\ last_log_id = 0
    /\ next_log_id = 1
    /\ raw_logs = <<>>
    /\ consolidated_logs = <<>>
    /\ updated_logs = <<>>
    /\ baseline_version = None
    /\ plans = <<>>

InitPlan ==
    /\ comparator = "simple_compare"
    /\ loader = NoLoader
    /\ migration_scripts = <<>>
    /\ \E rs \in PlanRecipes :
         \E ai \in BOOLEAN, sb \in OptVersions, tv \in OptVersions, af \in BOOLEAN :
           ReadyMigrator(Config(ai, sb, tv, af), rs)
    /\ InitCaller
    /\ pc = "ready"
    /\ db \in PlanDbs
    /\ db.table => ~config.auto_initialize

NextPlan == ReadChangelog \/ MakePlan

SpecPlan == InitPlan /\ [][NextPlan]_vars

-----------------------------------------------------------------------------
(* Migrator::check_updated_log *)

ChecksumOrEmpty(log) == IF IsSome(log.checksum) THEN Unwrap(log.checksum) ELSE <<>>

UpgradeIndices(version) ==
    EqualIndices([j \in DOMAIN recipes |-> finder(recipes[j], version, "upgrade")])

check_target_any_kind ==
    IF ~IsSome(config.target_version) THEN Ok
    ELSE LET target_version == Unwrap(config.target_version)
             OrdB(a) == finder(a, target_version, "baseline")
             OrdU(a) == finder(a, target_version, "upgrade")
             index == InsertionPoint([j \in DOMAIN recipes |-> OrdU(recipes[j])]) - 1
         IN  IF \A j \in DOMAIN recipes : recipes[j].version # target_version
               THEN ErrDetail("UnknownTarget",
                              IF 1 <= index THEN Some(recipes[index].version) ELSE None)
               ELSE Ok

\* Check if target version is known.
check_target ==
    IF ~IsSome(config.target_version) THEN Ok
    ELSE LET target_version == Unwrap(config.target_version)
             OrdB(a) == finder(a, target_version, "baseline")
             OrdU(a) == finder(a, target_version, "upgrade")
             index == InsertionPoint([j \in DOMAIN recipes |-> OrdU(recipes[j])]) - 1
         IN  IF /\ EqualIndices([j \in DOMAIN recipes |-> OrdB(recipes[j])]) = {}
                /\ EqualIndices([j \in DOMAIN recipes |-> OrdU(recipes[j])]) = {}
               THEN ErrDetail("UnknownTarget",
                              IF 1 <= index THEN Some(recipes[index].version) ELSE None)
               ELSE Ok

check_known_first ==
    LET Bad(i) == \/ UpgradeIndices(updated_logs[i].version) = {}
                  \/ \E k \in UpgradeIndices(updated_logs[i].version) :
                       ChecksumOrEmpty(updated_logs[i]) # recipes[k].checksum
        bad == {i \in 1..Len(updated_logs) : Bad(i)}
    IN  IF bad = {} THEN Ok
        ELSE LET i == CHOOSE b \in bad : \A c \in bad : b <= c
             IN  IF UpgradeIndices(updated_logs[i].version) = {}
                   THEN ErrDetail("UnknownMigration", Some(updated_logs[i].version))
                   ELSE ErrDetail("ConflictedMigration", Some(updated_logs[i].version))

\* Check if all applied migrations in the database are known.
check_known ==
    LET Bad(i) == \/ UpgradeIndices(updated_logs[i].version) = {}
                  \/ \E k \in UpgradeIndices(updated_logs[i].version) :
                       ChecksumOrEmpty(updated_logs[i]) # recipes[k].checksum
        bad == {i \in 2..Len(updated_logs) : Bad(i)}
    IN  IF bad = {} THEN Ok
        ELSE LET i == CHOOSE b \in bad : \A c \in bad : b <= c
             IN  IF UpgradeIndices(updated_logs[i].version) = {}
                   THEN ErrDetail("UnknownMigration", Some(updated_logs[i].version))
                   ELSE ErrDetail("ConflictedMigration", Some(updated_logs[i].version))

check_applied_after_last ==
    IF ~IsSome(baseline_version) THEN Ok
    ELSE LET skipped == SkipWhile(recipes, [i \in DOMAIN recipes |->
                                    NotAfter(updated_logs[Len(updated_logs)].version,
                                             recipes[i])])
             taken == TakeWhile(skipped, [i \in DOMAIN skipped |->
                                            WithinTarget(skipped[i])])
             scripts == SelectSeq(taken, is_upgrade)
             Bad(i) == LET log == find_agg_log(updated_logs, scripts[i].version)
                       IN  \/ ~IsSome(log)
                           \/ ChecksumOrEmpty(Unwrap(log)) # scripts[i].checksum
             bad == {i \in DOMAIN scripts : Bad(i)}
         IN  IF bad = {} THEN Ok
             ELSE LET i == CHOOSE b \in bad : \A c \in bad : b <= c
                  IN  IF IsSome(find_agg_log(updated_logs, scripts[i].version))
                        THEN ErrDetail("ConflictedMigration", Some(scripts[i].version))
                        ELSE ErrDetail("MissingMigration", Some(scripts[i].version))

\* Check if all upgrade recipes are applied.
check_applied ==
    IF ~IsSome(baseline_version) THEN Ok
    ELSE LET skipped == SkipWhile(recipes, [i \in DOMAIN recipes |->
                                    NotAfter(Unwrap(baseline_version), recipes[i])])
             taken == TakeWhile(skipped, [i \in DOMAIN skipped |->
                                            WithinTarget(skipped[i])])
             scripts == SelectSeq(taken, is_upgrade)
             Bad(i) == LET log == find_agg_log(updated_logs, scripts[i].version)
                       IN  \/ ~IsSome(log)
                           \/ ChecksumOrEmpty(Unwrap(log)) # scripts[i].checksum
             bad == {i \in DOMAIN scripts : Bad(i)}
         IN  IF bad = {} THEN Ok
             ELSE LET i == CHOOSE b \in bad : \A c \in bad : b <= c
                  IN  IF IsSome(find_agg_log(updated_logs, scripts[i].version))
                        THEN ErrDetail("ConflictedMigration", Some(scripts[i].version))
                        ELSE ErrDetail("MissingMigration", Some(scripts[i].version))

check_updated_log ==
    IF ~check_target.ok THEN check_target
    ELSE IF ~check_known.ok THEN check_known
    ELSE check_applied

CheckUpdatedLog ==
    /\ pc = "planned"
    /\ result' = check_updated_log
    /\ pc' = IF check_updated_log.ok THEN "checked" ELSE "failed_check"
    /\ UNCHANGED <<peers, migratorVars, db, tx, adapter_result, idx, lastMigrate, runs, plan_calls>>

-----------------------------------------------------------------------------
(* AsyncClient::apply_plan for tokio_postgres::Client, one step per await *)

TxPcs == {"tx_start_ts", "tx_batch_execute", "tx_revert_ts", "tx_finish_ts",
          "tx_revert_log", "tx_apply_log", "tx_commit"}

\* self.transaction(): the statements of the transaction see and change a
\* working copy that commit makes the database and a drop discards.  The clock
\* is read inside the transaction; a later reading is greater than an earlier
\* one and than every reading of a committed transaction.
transaction(d) ==
    [open |-> TRUE, table |-> d.table, rows |-> d.rows, schema |-> d.schema,
     clock |-> d.clock, start_ts |-> None, finish_ts |-> None]

commit(d, t) ==
    [d EXCEPT !.table = t.table, !.rows = t.rows, !.schema = t.schema, !.clock = t.clock]

\* transaction.batch_execute(plan.sql()) on s = [tx, db]
batch_execute_autocommit(s, sql) == [s EXCEPT !.db.schema = Append(@, sql)]

batch_execute(s, sql) == [s EXCEPT !.tx.schema = Append(@, sql)]

\* UPDATE .. SET revert_ts = $2 WHERE log_id = $1
update_revert_ts_delete(rows, log_id, ts) == {r \in rows : r.log_id # log_id}

update_revert_ts(rows, log_id, ts) ==
    {IF r.log_id = log_id THEN [r EXCEPT !.revert_ts = ts] ELSE r : r \in rows}

InsertedRow_finish_only(log, start_ts, finish_ts) ==
    Changelog(log.log_id, log.version, log.name, log.kind, log.checksum, log.apply_by,
              finish_ts, finish_ts, None)

\* INSERT INTO .. (log_id, .., start_ts, finish_ts): the row it adds.
InsertedRow(log, start_ts, finish_ts) ==
    Changelog(log.log_id, log.version, log.name, log.kind, log.checksum, log.apply_by,
              start_ts, finish_ts, None)

\* SQLSTATE of the statement's failure on the working copy, or "" when it runs.
UpdateError(t) == IF ~t.table THEN "42P01" ELSE ""
InsertError(t, log) ==
    IF ~t.table THEN "42P01"
    ELSE IF \E r \in t.rows : r.log_id = log.log_id THEN "23505"
    ELSE ""

\* `if result.is_err() { break; }` of migrate: where the loop goes after an error.
AfterError_continue(i) ==
    IF i < Len(plans) THEN [pc |-> "apply", idx |-> i + 1]
    ELSE [pc |-> "failed_apply", idx |-> i]

AfterError(i) == [pc |-> "failed_apply", idx |-> i]

\* An await of apply_plan returns an error: the transaction is dropped.
ApplyError(code) ==
    /\ tx' = NoTx
    /\ result' = Err("PgError", code)
    /\ adapter_result' = <<Err("PgError", code)>>
    /\ pc' = AfterError(idx).pc
    /\ idx' = AfterError(idx).idx
    /\ lastMigrate' = "failed"
    /\ UNCHANGED <<peers, migratorVars, db, runs, plan_calls>>

TxStep(next, t) ==
    /\ tx' = t
    /\ pc' = next
    /\ UNCHANGED <<peers, migratorVars, db, adapter_result, idx, result, lastMigrate, runs,
                   plan_calls>>

\* migrate: the plan list is empty, or the loop starts.
Migrate ==
    /\ pc \in {"planned", "checked"}
    /\ IF Len(plans) = 0
         THEN /\ pc' = "done"
              /\ lastMigrate' = "ok"
         ELSE /\ pc' = "apply"
              /\ UNCHANGED lastMigrate
    /\ idx' = 1
    /\ result' = Ok
    /\ UNCHANGED <<peers, migratorVars, db, tx, adapter_result, runs, plan_calls>>

ApplyPlanBegin ==
    /\ pc = "apply"
    /\ TxStep("tx_start_ts", transaction(db))

TxStartTs ==
    /\ pc = "tx_start_ts"
    /\ TxStep("tx_batch_execute",
              [tx EXCEPT !.start_ts = Some(tx.clock), !.clock = tx.clock + 1])

TxBatchExecute ==
    /\ pc = "tx_batch_execute"
    /\ LET s == batch_execute([tx |-> tx, db |-> db], plans[idx].recipe.sql)
       IN  /\ tx' = s.tx
           /\ db' = s.db
    /\ pc' = "tx_revert_ts"
    /\ UNCHANGED <<peers, migratorVars, adapter_result, idx, result, lastMigrate, runs, plan_calls>>

TxRevertTs ==
    /\ pc = "tx_revert_ts"
    /\ IF ~IsSome(plans[idx].log_id_to_revert) THEN TxStep("tx_finish_ts", tx)
       ELSE IF UpdateError(tx) # "" THEN ApplyError(UpdateError(tx))
       ELSE TxStep("tx_finish_ts",
                   [tx EXCEPT !.rows = update_revert_ts(tx.rows,
                                                        Unwrap(plans[idx].log_id_to_revert),
                                                        tx.start_ts)])

TxFinishTs ==
    /\ pc = "tx_finish_ts"
    /\ TxStep("tx_revert_log",
              [tx EXCEPT !.finish_ts = Some(tx.clock), !.clock = tx.clock + 1])

TxInsert(log, next) ==
    IF ~IsSome(log) THEN TxStep(next, tx)
    ELSE IF InsertError(tx, Unwrap(log)) # "" THEN ApplyError(InsertError(tx, Unwrap(log)))
    ELSE TxStep(next, [tx EXCEPT !.rows = tx.rows \cup
                         {InsertedRow(Unwrap(log), tx.start_ts, tx.finish_ts)}])

TxRevertLog ==
    /\ pc = "tx_revert_log"
    /\ TxInsert(plans[idx].revert_log, "tx_apply_log")

TxApplyLog ==
    /\ pc = "tx_apply_log"
    /\ TxInsert(plans[idx].apply_log, "tx_commit")

\* transaction.commit() succeeds; migrate goes to the next plan or finishes.
TxCommit ==
    /\ pc = "tx_commit"
    /\ db' = commit(db, tx)
    /\ tx' = NoTx
    /\ adapter_result' = <<Ok>>
    /\ result' = Ok
    /\ idx' = idx + 1
    /\ pc' = IF idx < Len(plans) THEN "apply" ELSE "done"
    /\ lastMigrate' = IF idx < Len(plans) THEN lastMigrate ELSE "ok"
    /\ UNCHANGED <<peers, migratorVars, runs, plan_calls>>

\* Any await of apply_plan (opening the transaction, a statement, the commit)
\* fails with an error of the server or the connection.
TxFail ==
    /\ pc \in TxPcs \cup {"apply"}
    /\ \E code \in db.faults : ApplyError(code)

-----------------------------------------------------------------------------
(* Runs of migrator_command against one database *)

\* migrator_command calls make_plan once after read_changelog.
MakePlanOnce == pc = "read" /\ MakePlan

\* The next run of the command: a new Migrator, the same recipe files and options.
NewRun ==
    /\ pc \in {"done", "failed_read", "failed_plan", "failed_check", "failed_apply"}
    /\ runs < MaxRuns
    /\ runs' = runs + 1
    /\ pc' = "ready"
    /\ last_log_id' = 0
    /\ next_log_id' = 1
    /\ raw_logs' = <<>>
    /\ consolidated_logs' = <<>>
    /\ updated_logs' = <<>>
    /\ baseline_version' = None
    /\ plans' = <<>>
    /\ idx' = 1
    /\ result' = NoResult
    /\ adapter_result' = <<>>
    /\ plan_calls' = 0
    /\ UNCHANGED <<peers, loader, comparator, migration_scripts, config, recipes, db, tx, lastMigrate>>

InitRun ==
    /\ comparator = "simple_compare"
    /\ loader = NoLoader
    /\ migration_scripts = <<>>
    /\ \E ai \in BOOLEAN, tv \in {None, Some(2)}, af \in BOOLEAN :
         \E rs \in RunRecipes : ReadyMigrator(Config(ai, None, tv, af), rs)
    /\ InitCaller
    /\ pc = "ready"
    /\ \E d \in RunDbs : db = [d EXCEPT !.faults = PgErrorCodes]
    /\ db.table => ~config.auto_initialize

NextRun ==
    \/ ReadChangelog \/ MakePlanOnce \/ CheckUpdatedLog \/ Migrate
    \/ ApplyPlanBegin \/ TxStartTs \/ TxBatchExecute \/ TxRevertTs \/ TxFinishTs
    \/ TxRevertLog \/ TxApplyLog \/ TxCommit \/ TxFail
    \/ NewRun

SpecRun == InitRun /\ [][NextRun]_vars

-----------------------------------------------------------------------------
(* Runs in which apply_plan is given a client of another database *)

\* Migrator::apply_plan takes the client as an argument: the caller passes the
\* units planned from one database to a client of a database without the table.
OtherClient ==
    /\ pc \in {"planned", "checked"}
    /\ db.table
    /\ Len(plans) > 0
    /\ db' = [db EXCEPT !.table = FALSE, !.rows = {}, !.schema = <<>>]
    /\ UNCHANGED <<peers, migratorVars, tx, adapter_result, pc, idx, result, lastMigrate, runs,
                   plan_calls>>

NextAdapter == NextRun \/ OtherClient

SpecAdapter == InitRun /\ [][NextAdapter]_vars

-----------------------------------------------------------------------------
(* Runs of migrator_command from a fresh database, the recipe files changing *)

BasePool == {i \in DOMAIN Pool : Pool[i].name \in {"init", "init2", "revert_init", "add_y"}}
BaseRecipes == AcceptedRecipes(BasePool)

\* The next run of the command after the recipe files were changed.
NewRunRecipes ==
    /\ pc \in {"done", "failed_read", "failed_plan", "failed_check", "failed_apply"}
    /\ runs < MaxRuns
    /\ runs' = runs + 1
    /\ pc' = "ready"
    /\ recipes' \in BaseRecipes
    /\ last_log_id' = 0
    /\ next_log_id' = 1
    /\ raw_logs' = <<>>
    /\ consolidated_logs' = <<>>
    /\ updated_logs' = <<>>
    /\ baseline_version' = None
    /\ plans' = <<>>
    /\ idx' = 1
    /\ result' = NoResult
    /\ adapter_result' = <<>>
    /\ plan_calls' = 0
    /\ UNCHANGED <<peers, loader, comparator, migration_scripts, config, db, tx, lastMigrate>>

InitBase ==
    /\ comparator = "simple_compare"
    /\ loader = NoLoader
    /\ migration_scripts = <<>>
    /\ \E ai \in BOOLEAN, sb \in {None, Some(2)}, af \in BOOLEAN :
         \E rs \in BaseRecipes : ReadyMigrator(Config(ai, sb, None, af), rs)
    /\ InitCaller
    /\ pc = "ready"
    /\ \E d \in {NoTableDb, EmptyDb} : db = [d EXCEPT !.faults = PgErrorCodes]
    /\ db.table => ~config.auto_initialize

NextBase ==
    \/ ReadChangelog \/ MakePlanOnce \/ Migrate
    \/ ApplyPlanBegin \/ TxStartTs \/ TxBatchExecute \/ TxRevertTs \/ TxFinishTs
    \/ TxRevertLog \/ TxApplyLog \/ TxCommit \/ TxFail
    \/ NewRunRecipes

SpecBase == InitBase /\ [][NextBase]_vars

-----------------------------------------------------------------------------
(* set_recipes over recipe files and comparators *)

\* Recipe files with repeated versions, with the versions "1" and "1.0", and
\* with Revert/Fixup recipes that refer to a recipe of the set.
FilePool ==
    << BaselineRecipe(1, "init", "init.sql"),
       BaselineRecipe(1, "init_again", "init_again.sql"),
       BaselineRecipe(0 - 1, "init_dot", "init_dot.sql"),
       UpgradeRecipe(2, "add_y", "add_y.sql"),
       UpgradeRecipe(2, "add_y_again", "add_y_again.sql"),
       RevertRecipe(1, "revert_other", "revert_other.sql", Sha256Hex("other.sql"), 1),
       RevertRecipe(1, "revert_init", "revert_init.sql", Sha256Hex("init.sql"), 1),
       RevertRecipe(2, "revert_y", "revert_y.sql", Sha256Hex("add_y.sql"), 2),
       FixupRecipe(2, "fixup_y8", "fixup_y8.sql",
                   SubSeq(Sha256Hex("add_y_again.sql"), 1, MinChecksumPattern), 2,
                   2, "add_y", Sha256Hex("add_y.sql")),
       UpgradeRecipe(0 - 2, "add_y_dot", "add_y_dot.sql") >>

Reverse(seq) == [i \in DOMAIN seq |-> seq[Len(seq) + 1 - i]]

\* The vectors load_sql_recipes can give: any of the files, in either order.
LoadedFiles ==
    UNION {{Unwrapped(SubSeqOf(FilePool, S)), Reverse(Unwrapped(SubSeqOf(FilePool, S)))} :
             S \in SUBSET (DOMAIN FilePool)}

SetRecipesLoaded == set_recipes(migration_scripts)

InitRecipes ==
    /\ comparator \in {"simple_compare", "version_compare"}
    /\ loader = NoLoader
    /\ migration_scripts \in LoadedFiles
    /\ NewMigrator(Config(FALSE, None, None, FALSE))
    /\ InitCaller
    /\ pc = "new"
    /\ db = EmptyDb

NextRecipes == SetRecipesLoaded

SpecRecipes == InitRecipes /\ [][NextRecipes]_vars

-----------------------------------------------------------------------------
(* load_sql_recipes over recipe files *)

\* The line `-- key: value`
Hdr(key, value) == <<"-", "-", " ", key, ":", " ", value>>

\* The lines the files are made of, in the order they have in a file.
FileLines ==
    << Hdr("version", "2"),
       Hdr("name", "renamed"),
       Hdr("kind", "revert"),
       <<"-", "-", "kind", ":", "fixup">>,
       Hdr("kind", "bogus"),
       Hdr("old_checksum", "abc"),
       Hdr("new_name", "target"),
       Hdr("new_checksum", "def"),
       Hdr("maximum_version", "3"),
       Hdr("new_version", "4"),
       <<"-", "-", " ", "version", " ", ":", " ", "5", ":", "0", " ">>,
       <<"-", "-", " ", "comment">>,
       <<"SELECT">>,
       Hdr("kind", "baseline") >>

SqlTexts ==
    {Unwrapped(SubSeqOf(FileLines, S)) :
       S \in {T \in SUBSET (DOMAIN FileLines) : Cardinality(T) <= MaxLines}}

FileNames == {<<"baseline", "_x">>, <<"revert", "_x">>, <<"fixup", "_x">>, <<"add", "_x">>}

\* The files: `1_<name>.sql` with any of the texts, and one whose stem does
\* not match the pattern.
SqlFiles ==
    {[stem |-> Some(<<(<<"1">>), n>>), sql |-> t] : n \in FileNames, t \in SqlTexts}
    \cup {[stem |-> None, sql |-> <<>>]}

\* The text of f saved again as `9_add_copy.sql`.
Resaved(f) == [f EXCEPT !.stem = Some(<<(<<"9">>), <<"add", "_copy">>>>)]

InitLoad ==
    /\ \E f \in SqlFiles, kd \in {"none", "simple_kind_detector"} :
         \E files \in {<<f>>, <<f, Resaved(f)>>} :
            loader = [inner |-> files, path |-> None, kind_detector |-> kd]
    /\ comparator = "simple_compare"
    /\ migration_scripts = <<>>
    /\ NewMigrator(Config(FALSE, None, None, FALSE))
    /\ InitCaller
    /\ pc = "load"
    /\ db = EmptyDb

NextLoad == LoadNext \/ LoadDone

SpecLoad == InitLoad /\ [][NextLoad]_vars

-----------------------------------------------------------------------------
(* Verification of the plan: read_changelog, make_plan, check_updated_log *)

InitCheck ==
    /\ comparator = "simple_compare"
    /\ loader = NoLoader
    /\ migration_scripts = <<>>
    /\ \E rs \in PlanRecipes :
         \E ai \in BOOLEAN, sb \in OptVersions, tv \in OptVersions, af \in BOOLEAN,
            oo \in BOOLEAN :
           ReadyMigrator([Config(ai, sb, tv, af) EXCEPT !.allow_out_of_order = oo], rs)
    /\ InitCaller
    /\ pc = "ready"
    /\ db \in PlanDbs
    /\ db.table => ~config.auto_initialize

NextCheck == ReadChangelog \/ MakePlanOnce \/ CheckUpdatedLog

SpecCheck == InitCheck /\ [][NextCheck]_vars

-----------------------------------------------------------------------------
(* The consolidation of any raw changelog *)

ChecksumChoices == {None, Some(Sha256Hex("a.sql")), Some(Sha256Hex("b.sql"))}

RawRow(log_id, version, checksum) ==
    Changelog(log_id, version, Some("m"), IF IsSome(checksum) THEN "upgrade" ELSE "revert",
              checksum, ApplyBy, Some(0), Some(0), None)

InitLog ==
    /\ comparator = "simple_compare"
    /\ loader = NoLoader
    /\ migration_scripts = <<>>
    /\ NewMigrator(Config(FALSE, None, None, FALSE))
    /\ InitCaller
    /\ pc = "ready"
    /\ \E n \in 0..MaxRaw :
         \E f \in [1..n -> Versions \X ChecksumChoices] :
           db = Database(TRUE, {RawRow(i, f[i][1], f[i][2]) : i \in 1..n}, <<>>)

NextLog == ReadChangelog

SpecLog == InitLog /\ [][NextLog]_vars

RowsOfVersion(rows, v) == {r \in rows : version_comparator(r.version, v) = "Equal"}
MostRecent(rows) == CHOOSE r \in rows : \A q \in rows : q.log_id <= r.log_id
EntriesOfVersion(agg_log, v) ==
    {i \in DOMAIN agg_log : version_comparator(agg_log[i].version, v) = "Equal"}

\* C1: after read_changelog the consolidated log has exactly one entry for each
\* version whose most recent raw row has a checksum, that entry is that row, and
\* it has no entry for a version that has no row or whose most recent row is a
\* revert marker.
C1_Consolidation ==
    (pc = "read") =>
        \A v \in Versions :
            LET rows == RowsOfVersion(db.rows, v)
                entries == EntriesOfVersion(consolidated_logs, v)
            IN  IF rows # {} /\ IsSome(MostRecent(rows).checksum)
                  THEN /\ Cardinality(entries) = 1
                       /\ \A i \in entries : consolidated_logs[i] = MostRecent(rows)
                  ELSE entries = {}

C1_Witness ==
    /\ pc = "read"
    /\ consolidated_logs # <<>>
    /\ \E r, q \in db.rows :
         /\ r.version = q.version /\ r.log_id < q.log_id
         /\ IsSome(r.checksum) /\ ~IsSome(q.checksum)
         /\ q = MostRecent(RowsOfVersion(db.rows, q.version))


-----------------------------------------------------------------------------
(* Properties of make_plan *)

UnitsOfKind(kinds) == SelectSeq(plans, LAMBDA u : u.recipe.kind \in kinds)
ApplyIds(units) == {Unwrap(units[i].apply_log).log_id : i \in DOMAIN units}

\* The log ids a plan unit carries, in the order they are inserted.
UnitLogIds(u) ==
    (IF IsSome(u.revert_log) THEN <<Unwrap(u.revert_log).log_id>> ELSE <<>>)
    \o (IF IsSome(u.apply_log) THEN <<Unwrap(u.apply_log).log_id>> ELSE <<>>)

RECURSIVE PlanLogIds(_)
PlanLogIds(units) ==
    IF units = <<>> THEN <<>> ELSE UnitLogIds(Head(units)) \o PlanLogIds(Tail(units))

\* C4: within one run (read_changelog, then any number of make_plan calls) the
\* log ids carried by the plan units are strictly increasing in plan order, the
\* revert marker's before the apply row's, and all greater than last_log_id.
C4_MonotonicLogIds ==
    LET ids == PlanLogIds(plans)
    IN  /\ \A i \in DOMAIN ids : ids[i] > last_log_id
        /\ \A i, j \in DOMAIN ids : i < j => ids[i] < ids[j]

C4_Witness ==
    /\ plan_calls = 2
    /\ last_log_id > 0
    /\ Len(plans) >= 2
    /\ \E i \in DOMAIN plans : IsSome(plans[i].revert_log) /\ IsSome(plans[i].apply_log)

\* updated_logs as Phase A left it: the entries that are not the apply row of a
\* planned Baseline or Upgrade unit.
AfterPhaseA ==
    SelectSeq(updated_logs,
              LAMBDA e : e.log_id \notin ApplyIds(UnitsOfKind({"baseline", "upgrade"})))

BaselinesAt(v) == {recipes[i] : i \in {j \in DOMAIN recipes :
                                          is_baseline(recipes[j]) /\ recipes[j].version = v}}
Baselines == {recipes[i] : i \in {j \in DOMAIN recipes : is_baseline(recipes[j])}}

C9_PhaseC ==
    (plan_calls = 1 /\ pc = "planned") =>
        LET units == UnitsOfKind({"upgrade"})
            before == SelectSeq(updated_logs, LAMBDA e : e.log_id \notin ApplyIds(units))
            last_version == before[Len(before)].version
            expected == {recipes[i] : i \in {j \in DOMAIN recipes :
                            /\ is_upgrade(recipes[j])
                            /\ recipes[j].version > last_version
                            /\ IsSome(config.target_version) =>
                                 recipes[j].version <= Unwrap(config.target_version)}}
        IN  /\ before # <<>>
            /\ {units[i].recipe : i \in DOMAIN units} = expected
            /\ Len(units) = Cardinality(expected)
            /\ \A i, j \in DOMAIN units :
                 i < j => units[i].recipe.version < units[j].recipe.version

C9_Witness ==
    /\ plan_calls = 1 /\ pc = "planned"
    /\ IsSome(config.target_version)
    /\ Len(UnitsOfKind({"upgrade"})) >= 1
    /\ \E i \in DOMAIN recipes :
         is_upgrade(recipes[i]) /\ recipes[i].version > Unwrap(config.target_version)

\* C10: in Phase A a Revert/Fixup recipe at the version of a log entry matches
\* the entry iff its old_checksum is a prefix, of at least 8 characters, of the
\* entry's checksum and current_version is not greater than its maximum_version.
C10_MatchIffPrefix ==
    (pc = "read") =>
        \A i \in DOMAIN updated_logs : \A j \in DOMAIN recipes :
            (IsSome(recipes[j].old_checksum)
             /\ recipes[j].version = updated_logs[i].version) =>
                LET current_version == updated_logs[Len(updated_logs)].version
                    old_checksum == Unwrap(recipes[j].old_checksum)
                IN  match_fix_recipe(updated_logs[i].version,
                                     Unwrap(updated_logs[i].checksum),
                                     recipes[j], current_version)
                    <=> /\ Len(old_checksum) >= MinChecksumPattern
                        /\ starts_with(Unwrap(updated_logs[i].checksum), old_checksum)
                        /\ current_version <= Unwrap(recipes[j].maximum_version)

FixKinds == {"revert", "fixup"}

\* The entry of the consolidated log a unit reverts.
RevertedEntry(u) ==
    CHOOSE e \in {consolidated_logs[i] : i \in DOMAIN consolidated_logs} :
      Some(e.log_id) = u.log_id_to_revert

\* C11: the Revert/Fixup unit of the first make_plan after read_changelog
\* reverts an entry L of the consolidated log at the recipe's version; its
\* revert marker has the next free log_id, L's version, the recipe's kind and
\* no checksum; a Fixup has an apply row with the following log_id at
\* (new_version, new_name, the recipe's kind, new_checksum), a Revert has none;
\* L is not in updated_logs, and for a Fixup updated_logs holds the apply row
\* at new_version.
C11_FixUnit ==
    (plan_calls = 1 /\ pc \in {"planned", "failed_plan"}) =>
      \A k \in DOMAIN plans :
        plans[k].recipe.kind \in FixKinds =>
          LET u == plans[k]
              R == u.recipe
              L == RevertedEntry(u)
              marker == Unwrap(u.revert_log)
          IN  /\ \E i \in DOMAIN consolidated_logs :
                   Some(consolidated_logs[i].log_id) = u.log_id_to_revert
              /\ L.version = R.version
              /\ IsSome(u.revert_log)
              /\ marker.log_id = last_log_id + 1
              /\ marker.version = L.version
              /\ marker.kind = R.kind
              /\ marker.checksum = None
              /\ \A i \in DOMAIN updated_logs : updated_logs[i].log_id # L.log_id
              /\ R.kind = "revert" => u.apply_log = None
              /\ R.kind = "fixup" =>
                   /\ IsSome(u.apply_log)
                   /\ Unwrap(u.apply_log).log_id = last_log_id + 2
                   /\ Unwrap(u.apply_log).version = Unwrap(R.new_version)
                   /\ Unwrap(u.apply_log).name = R.new_name
                   /\ Unwrap(u.apply_log).kind = R.kind
                   /\ Unwrap(u.apply_log).checksum = R.new_checksum
                   /\ \E i \in DOMAIN updated_logs : updated_logs[i] = Unwrap(u.apply_log)

\* Phase A planned a Fixup for an entry of the log.
C11_Witness ==
    /\ plan_calls = 1 /\ pc = "planned"
    /\ plans # <<>>
    /\ plans[1].recipe.kind = "fixup"
    /\ IsSome(plans[1].apply_log)
    /\ Len(updated_logs) >= 2

-----------------------------------------------------------------------------
(* Properties of check_updated_log *)

Checked == pc \in {"checked", "failed_check"}

UpgradesAt(v) == {recipes[k] : k \in {j \in DOMAIN recipes :
                                        is_upgrade(recipes[j]) /\ recipes[j].version = v}}

\* The entries past the first that no Upgrade recipe of their version and
\* checksum stands for.
Unverified ==
    {i \in 2..Len(updated_logs) :
       \A r \in UpgradesAt(updated_logs[i].version) :
          Some(r.checksum) # updated_logs[i].checksum}

\* C13: unless the target is unknown, check_updated_log fails for the first
\* entry of updated_logs past index 0 that has no Upgrade recipe at its version
\* with its checksum: with UnknownMigration when there is no Upgrade recipe at
\* the version, with ConflictedMigration when there is one; when there is no
\* such entry it does not return UnknownMigration, whatever the entry at index
\* 0 is.
C13_KnownMigrations ==
    (Checked /\ result.kind # "UnknownTarget") =>
      IF Unverified = {} THEN result.kind # "UnknownMigration"
      ELSE LET i == CHOOSE b \in Unverified : \A c \in Unverified : b <= c
               e == updated_logs[i]
           IN  result = ErrDetail(IF UpgradesAt(e.version) = {} THEN "UnknownMigration"
                                  ELSE "ConflictedMigration", Some(e.version))

\* An entry past index 0 has an Upgrade recipe of another checksum, and the
\* entry at index 0 has no Upgrade recipe at all.
C13_Witness ==
    /\ pc = "failed_check"
    /\ result.kind = "ConflictedMigration"
    /\ Unverified # {}
    /\ UpgradesAt(updated_logs[1].version) = {}

\* The Upgrade recipes after baseline_version, up to target_version when it is
\* set, that updated_logs has no entry for at their version with their checksum.
Unapplied ==
    {k \in DOMAIN recipes :
       /\ is_upgrade(recipes[k])
       /\ recipes[k].version > Unwrap(baseline_version)
       /\ IsSome(config.target_version) =>
            recipes[k].version <= Unwrap(config.target_version)
       /\ \A i \in DOMAIN updated_logs :
            updated_logs[i].version = recipes[k].version =>
              updated_logs[i].checksum # Some(recipes[k].checksum)}

HasEntryAt(v) == \E i \in DOMAIN updated_logs : updated_logs[i].version = v

\* C14: after make_plan, check_updated_log fails whenever an Upgrade recipe in
\* (baseline_version, target_version] has no entry of its checksum in
\* updated_logs; when the target and the entries of the log are verified, the
\* error is for the first such recipe, MissingMigration when the log has no
\* entry at its version and ConflictedMigration when it has one, and there is
\* no error when there is no such recipe.
C14_AppliedUpgrades ==
    Checked =>
      /\ Unapplied # {} => ~result.ok
      /\ (result.kind # "UnknownTarget" /\ Unverified = {}) =>
           IF Unapplied = {} THEN result = Ok
           ELSE LET k == CHOOSE b \in Unapplied : \A c \in Unapplied : b <= c
                IN  result = ErrDetail(IF HasEntryAt(recipes[k].version)
                                         THEN "ConflictedMigration"
                                         ELSE "MissingMigration",
                                       Some(recipes[k].version))

\* allow_out_of_order is false and an Upgrade recipe below the newest logged
\* version, absent from the log, is reported.
C14_Witness ==
    /\ pc = "failed_check"
    /\ ~config.allow_out_of_order
    /\ result.kind = "MissingMigration"
    /\ consolidated_logs # <<>>
    /\ Unwrap(result.detail) < consolidated_logs[Len(consolidated_logs)].version
    /\ \E k \in Unapplied : recipes[k].version = Unwrap(result.detail)

\* C15: with allow_out_of_order set, an Upgrade recipe after baseline_version
\* and before the newest version of the log read, with no entry in that log, has
\* a unit in the plan, and check_updated_log does not return MissingMigration
\* for it.
C15_OutOfOrder ==
    (Checked /\ config.allow_out_of_order /\ consolidated_logs # <<>>) =>
      \A k \in DOMAIN recipes :
        (/\ is_upgrade(recipes[k])
         /\ recipes[k].version > Unwrap(baseline_version)
         /\ recipes[k].version < consolidated_logs[Len(consolidated_logs)].version
         /\ \A i \in DOMAIN consolidated_logs :
              consolidated_logs[i].version # recipes[k].version) =>
           /\ \E n \in DOMAIN plans : plans[n].recipe = recipes[k]
           /\ result # ErrDetail("MissingMigration", Some(recipes[k].version))

\* C16: when target_version is set and no Baseline and no Upgrade recipe has
\* that version, check_updated_log returns UnknownTarget, whatever else is wrong,
\* with the greatest version of the recipes below target_version as `available`
\* (none when there is no such recipe); otherwise it does not return
\* UnknownTarget.
C16_UnknownTarget ==
    Checked =>
      LET tv == Unwrap(config.target_version)
          known == \E k \in DOMAIN recipes :
                     recipes[k].version = tv /\ recipes[k].kind \in {"baseline", "upgrade"}
          lower == {recipes[k].version : k \in {j \in DOMAIN recipes : recipes[j].version < tv}}
      IN  IF IsSome(config.target_version) /\ ~known
            THEN result = ErrDetail("UnknownTarget",
                                    IF lower = {} THEN None
                                    ELSE Some(CHOOSE v \in lower : \A w \in lower : w <= v))
            ELSE result.kind # "UnknownTarget"

\* The target is unknown, a lower version is known, and an entry of the log is
\* unverified as well.
C16_Witness ==
    /\ pc = "failed_check"
    /\ result.kind = "UnknownTarget"
    /\ IsSome(result.detail)
    /\ Unverified # {}
    /\ \E k \in DOMAIN recipes : recipes[k].version = Unwrap(config.target_version)

-----------------------------------------------------------------------------
(* Properties of read_changelog, apply_plan and migrate *)

NoLogTable == Err("NoLogTable", "")

\* C7: read_changelog, when the adapter's last_log_id reports the missing log
\* table, returns NoLogTable if auto_initialize is false and goes on if it is
\* true, and then succeeds with last_log_id = 0, next_log_id = 1 and empty raw
\* and consolidated logs; NoLogTable is returned only for a database without
\* the table; every other error of last_log_id or get_changelog is the result
\* of read_changelog, unchanged.
C7_ReadChangelog ==
    pc \in {"read", "failed_read"} =>
      LET first == adapter_result[1]
          called == Len(adapter_result)
      IN  /\ (first = NoLogTable /\ ~config.auto_initialize) =>
                (pc = "failed_read" /\ result = NoLogTable /\ called = 1 /\ ~db.table)
          /\ (first = NoLogTable /\ config.auto_initialize) =>
                /\ called = 2
                /\ adapter_result[2].ok =>
                     /\ pc = "read" /\ result = Ok
                     /\ last_log_id = 0 /\ next_log_id = 1
                     /\ raw_logs = <<>> /\ consolidated_logs = <<>>
          /\ (~first.ok /\ first # NoLogTable) =>
                (pc = "failed_read" /\ result = first /\ called = 1)
          /\ (called = 2 /\ ~adapter_result[2].ok) =>
                (pc = "failed_read" /\ result = adapter_result[2])
          /\ pc = "failed_read" => (~result.ok /\ result = adapter_result[called])
          /\ pc = "read" => (first.ok \/ first = NoLogTable)

\* The missing table was reported, auto_initialize is set and the read succeeded.
C7_Witness ==
    /\ pc = "read"
    /\ adapter_result = <<NoLogTable, Ok>>
    /\ config.auto_initialize
    /\ next_log_id = 1

InUnit == pc \in TxPcs \cup {"apply"}

Committing == pc = "tx_commit" /\ pc' \in {"apply", "done"}

\* C3: from the moment apply_plan starts a unit, no step other than the
\* successful commit changes the database (its schema, its log table rows), so
\* a unit that fails at any step leaves the database as it was before the unit
\* began; the failure leaves no open transaction.
C3_AtomicPerUnit ==
    [][(InUnit /\ ~Committing) =>
          /\ db' = db
          /\ pc' = "failed_apply" => tx' = NoTx]_vars

\* A unit that reverts a row failed: the row is still not reverted.
C3_Witness ==
    /\ pc = "failed_apply"
    /\ result.kind = "PgError"
    /\ IsSome(plans[idx].log_id_to_revert)
    /\ \E r \in db.rows : Some(r.log_id) = plans[idx].log_id_to_revert /\ r.revert_ts = None

\* C5: every step leaves every row of the log table in the table with all its
\* column values unchanged.
C5_AppendOnly ==
    [][\A r \in db.rows : r \in db'.rows]_vars

UnitRows(plan, start_ts, finish_ts) ==
    {InsertedRow(Unwrap(log), start_ts, finish_ts) :
       log \in {l \in {plan.revert_log, plan.apply_log} : IsSome(l)}}

\* C5 (amended): no step deletes a row of the log table or changes a column of
\* an existing row other than revert_ts; revert_ts changes only when a unit
\* commits, on the row whose log_id is the unit's log_id_to_revert, to the
\* unit's start timestamp; the only other change is the rows the unit adds (its
\* revert marker and its apply row).
C5_AppendOnlyExceptRevertTs ==
    [][/\ \A r \in db.rows :
            \E q \in db'.rows :
              /\ [q EXCEPT !.revert_ts = r.revert_ts] = r
              /\ q.revert_ts # r.revert_ts =>
                   /\ Committing
                   /\ plans[idx].log_id_to_revert = Some(r.log_id)
                   /\ q.revert_ts = tx.start_ts
       /\ \A q \in db'.rows :
            \/ \E r \in db.rows : r.log_id = q.log_id
            \/ Committing /\ q \in UnitRows(plans[idx], tx.start_ts, tx.finish_ts)]_vars

\* A committed unit has set revert_ts of a row that was in the table before.
C5_Witness ==
    /\ pc \in {"apply", "done"}
    /\ \E r \in db.rows : r.log_id <= last_log_id /\ IsSome(r.revert_ts)

HasRow(log) ==
    IsSome(log) /\ \E r \in db.rows :
                     /\ r.log_id = Unwrap(log).log_id
                     /\ r.version = Unwrap(log).version
                     /\ r.kind = Unwrap(log).kind
                     /\ r.checksum = Unwrap(log).checksum

Applied(plan) == HasRow(plan.revert_log) \/ HasRow(plan.apply_log)

LastSql(n) == SubSeq(db.schema, Len(db.schema) - n + 1, Len(db.schema))

\* C6: while migrate works on unit idx, and after it stopped there, exactly the
\* units before idx are in the database, their SQL executed in plan order; a
\* unit starts only when its predecessors are committed, and after the failure
\* of a unit no transaction is open and no later unit is in the database.
C6_InOrder ==
    (InUnit \/ pc \in {"failed_apply", "done"}) =>
      /\ idx \in 1..(Len(plans) + 1)
      /\ \A i \in DOMAIN plans : Applied(plans[i]) <=> i < idx
      /\ idx - 1 <= Len(db.schema)
      /\ LastSql(idx - 1) = [i \in 1..(idx - 1) |-> plans[i].recipe.sql]
      /\ pc = "failed_apply" => (tx = NoTx /\ idx <= Len(plans))
      /\ pc = "done" => idx = Len(plans) + 1 \/ plans = <<>>

\* The second of three units failed: the first one is committed, the third
\* one was not started.
C6_Witness ==
    /\ pc = "failed_apply"
    /\ Len(plans) = 3
    /\ idx = 2
    /\ Applied(plans[1])
    /\ ~Applied(plans[3])

FixMatches ==
    \E i \in DOMAIN consolidated_logs, k \in DOMAIN recipes :
       /\ IsSome(consolidated_logs[i].checksum)
       /\ match_fix_recipe(consolidated_logs[i].version,
                           Unwrap(consolidated_logs[i].checksum), recipes[k],
                           consolidated_logs[Len(consolidated_logs)].version)

\* C2: when the previous run applied every unit of its plan and allow_fixes is
\* false or no Revert/Fixup recipe matches an entry of the log read now, the
\* plan made from the log read now, by the same recipes and options, is empty.
C2_Idempotence ==
    (/\ pc = "planned"
     /\ runs >= 2
     /\ lastMigrate = "ok"
     /\ ~config.allow_fixes \/ ~FixMatches) => plans = <<>>

\* The previous run committed a unit with a fix, and the plan of this run is made.
C2_Witness ==
    /\ pc = "planned"
    /\ runs >= 2
    /\ lastMigrate = "ok"
    /\ config.allow_fixes /\ ~FixMatches
    /\ \E r \in db.rows : IsSome(r.revert_ts)
    /\ plans = <<>>

\* The consolidated log of the rows the log table holds.
EffectiveLog == FoldLogs(<<>>, OrderByLogId(db.rows))

\* C17: in every state of the database reached from a fresh one by runs of the
\* engine, the consolidated log of the table holds at most one entry of kind
\* baseline; a plan holds at most one Baseline unit, and apply_plan starts that
\* unit only when the consolidated log of the table is empty.
C17_OneBaseline ==
    /\ Cardinality({i \in DOMAIN EffectiveLog : EffectiveLog[i].kind = "baseline"}) <= 1
    /\ Len(UnitsOfKind({"baseline"})) <= 1
    /\ (InUnit /\ plans[idx].recipe.kind = "baseline") => EffectiveLog = <<>>

\* A second Baseline is being applied to a database whose first one was reverted.
C17_Witness ==
    /\ pc = "tx_commit"
    /\ plans[idx].recipe.kind = "baseline"
    /\ \E r \in db.rows : r.kind = "baseline" /\ IsSome(r.revert_ts)

\* The states make_plan can leave Phase A in, one for each way the binary
\* searches of recipes_for_version can land.
PhaseAOutcomes ==
    {PhaseA(PlannerState, found) :
       found \in (IF config.allow_fixes THEN FixWalk(updated_logs, Len(updated_logs))
                  ELSE {None})}

\* C18: from one state after read_changelog (recipes, consolidated log,
\* next_log_id, config) make_plan has one outcome, wherever the binary searches
\* over the recipes land among the recipes of the searched version.
C18_Deterministic ==
    pc = "read" => Cardinality(PhaseAOutcomes) = 1

RecipesSet == pc \in {"ready", "failed_recipes"}

\* Two recipes of the kind whose versions the comparator finds Equal.
Repeated(rs, kind) ==
    \E i, j \in DOMAIN rs :
       /\ i # j
       /\ rs[i].kind = kind /\ rs[j].kind = kind
       /\ version_comparator(rs[i].version, rs[j].version) = "Equal"

\* C19: set_recipes fails when two Baseline recipes, or two Upgrade recipes,
\* of its input have versions that compare Equal, it returns RepeatedVersion
\* only then, and the recipes it stores when it succeeds hold at most one
\* Baseline and one Upgrade per version.
C19_RepeatedVersion ==
    RecipesSet =>
      /\ (Repeated(migration_scripts, "baseline") \/ Repeated(migration_scripts, "upgrade"))
           => pc = "failed_recipes"
      /\ result.kind = "RepeatedVersion" =>
           (Repeated(migration_scripts, "baseline") \/ Repeated(migration_scripts, "upgrade"))
      /\ pc = "ready" => (~Repeated(recipes, "baseline") /\ ~Repeated(recipes, "upgrade"))

\* A Revert/Fixup of the set refers to a Baseline or Upgrade of the set at its
\* own version string.
Conflicted(rs) ==
    \E i, j \in DOMAIN rs :
       /\ IsSome(rs[i].old_checksum)
       /\ rs[j].kind \in {"baseline", "upgrade"}
       /\ rs[j].version = rs[i].version
       /\ Len(Unwrap(rs[i].old_checksum)) >= MinChecksumPattern
       /\ starts_with(rs[j].checksum, Unwrap(rs[i].old_checksum))

\* C20: set_recipes fails when a Revert or Fixup recipe of its input has an
\* old_checksum, of at least 8 characters, that is a prefix of the checksum of
\* a Baseline or Upgrade recipe of the input at the same version; the recipes
\* it stores when it succeeds hold no such Revert/Fixup.
C20_ConflictedFixup ==
    RecipesSet =>
      /\ Conflicted(migration_scripts) => pc = "failed_recipes"
      /\ pc = "ready" => ~Conflicted(recipes)

\* An Upgrade recipe of rs at the new target of the Fixup f.
HasTarget(rs, f) ==
    \E k \in DOMAIN rs :
       /\ is_upgrade(rs[k])
       /\ version_comparator(rs[k].version, Unwrap(f.new_version)) = "Equal"
       /\ Some(rs[k].name) = f.new_name
       /\ Some(rs[k].checksum) = f.new_checksum

\* C21: set_recipes fails when a Fixup of its input has a new target
\* (new_version, new_name, new_checksum) that is not the version, name and
\* checksum of an Upgrade of the input, with InvalidFixupNewTarget when the
\* chunks of the recipes are accepted; when it succeeds, every Fixup it stores
\* has an Upgrade of the stored recipes at its new target.
C21_FixupNewTarget ==
    RecipesSet =>
      LET bad == \E i \in DOMAIN migration_scripts :
                   /\ migration_scripts[i].kind = "fixup"
                   /\ ~HasTarget(migration_scripts, migration_scripts[i])
      IN  /\ bad => pc = "failed_recipes"
          /\ (bad /\ ~IsSome(CheckChunks(SortRecipes(migration_scripts)))) =>
               result.kind = "InvalidFixupNewTarget"
          /\ pc = "ready" =>
               \A i \in DOMAIN recipes :
                  recipes[i].kind = "fixup" => HasTarget(recipes, recipes[i])

\* A Fixup is stored with the Upgrade it names, and another Upgrade of an
\* Equal version is stored as well.
C21_Witness ==
    /\ pc = "ready"
    /\ \E i, j, k \in DOMAIN recipes :
         /\ recipes[i].kind = "fixup"
         /\ is_upgrade(recipes[j]) /\ is_upgrade(recipes[k]) /\ j # k
         /\ version_comparator(recipes[j].version, recipes[k].version) = "Equal"

\* The number of times r occurs in seq.
Occurrences(seq, r) == Cardinality({i \in DOMAIN seq : seq[i] = r})

\* seq is in non-decreasing order of (version under the comparator, kind).
SortedByVersionKind(seq) ==
    \A i, j \in DOMAIN seq :
       i < j =>
         LET o == version_comparator(seq[i].version, seq[j].version)
         IN  \/ o = "Less"
             \/ o = "Equal" /\ KindOrd(seq[i].kind) <= KindOrd(seq[j].kind)

\* No two recipes of seq have the same (version under the comparator, kind).
DistinctVersionKind(seq) ==
    \A i, j \in DOMAIN seq :
       i # j => sorter(seq[i], seq[j].version, seq[j].kind) # "Equal"

\* seq with its first element moved to the end.
Rotate(seq) == IF seq = <<>> THEN seq ELSE Append(Tail(seq), Head(seq))

\* C22: after a successful set_recipes the stored recipes are in
\* non-decreasing order of (version under the comparator, kind), the kinds in
\* the order Baseline < Upgrade < Revert < Fixup; they are a permutation of the
\* input; and when no two recipes have the same (version, kind), the input in
\* another order (reversed, rotated) gives the same stored sequence.
C22_SortedPermutation ==
    pc = "ready" =>
      /\ SortedByVersionKind(recipes)
      /\ Len(recipes) = Len(migration_scripts)
      /\ \A i \in DOMAIN migration_scripts :
            Occurrences(recipes, migration_scripts[i])
              = Occurrences(migration_scripts, migration_scripts[i])
      /\ DistinctVersionKind(migration_scripts) =>
            /\ SortRecipes(Reverse(migration_scripts)) = recipes
            /\ SortRecipes(Rotate(migration_scripts)) = recipes

\* set_recipes has succeeded on recipes of all four kinds that were not
\* given in sorted order.
C22_Witness ==
    /\ pc = "ready"
    /\ recipes # migration_scripts
    /\ DistinctVersionKind(migration_scripts)
    /\ {recipes[i].kind : i \in DOMAIN recipes} = {"baseline", "upgrade", "revert", "fixup"}

\* The steps of apply_plan in the order of the claim, and how many of them
\* have run when the transaction stands before step pc.
TxOrder == <<"tx_start_ts", "tx_batch_execute", "tx_revert_ts", "tx_finish_ts",
             "tx_revert_log", "tx_apply_log", "tx_commit">>
StepsDone == (CHOOSE i \in DOMAIN TxOrder : TxOrder[i] = pc) - 1

\* The row of log (an Option) is in the working copy with the captured timestamps.
Inserted(log) ==
    /\ IsSome(log)
    /\ \E r \in tx.rows :
          /\ r.log_id = Unwrap(log).log_id /\ r.kind = Unwrap(log).kind
          /\ r.start_ts = tx.start_ts /\ r.finish_ts = tx.finish_ts
          /\ r.revert_ts = None

\* The row the unit reverts has revert_ts = start_ts in the working copy.
RevertTsSet ==
    \A r \in db.rows :
       Some(r.log_id) = plans[idx].log_id_to_revert =>
          [r EXCEPT !.revert_ts = tx.start_ts] \in tx.rows

\* C23: inside one apply_plan transaction start_ts is captured before the
\* recipe SQL runs, the SQL runs before revert_ts of the reverted row is set,
\* finish_ts is captured after both, the revert marker is inserted before the
\* apply row, and nothing is committed before the last step; revert_ts of the
\* reverted row is start_ts and both inserted rows carry the captured
\* (start_ts, finish_ts).
C23_StepOrder ==
    pc \in TxPcs =>
      LET n == StepsDone
          unit == plans[idx]
      IN  /\ db.schema \in {tx.schema, SubSeq(tx.schema, 1, Len(tx.schema) - 1)}
          /\ \A r \in db.rows : \E q \in tx.rows : q.log_id = r.log_id
          /\ IsSome(tx.start_ts) <=> n >= 1
          /\ tx.schema = (IF n >= 2 THEN Append(db.schema, unit.recipe.sql) ELSE db.schema)
          /\ IF n >= 3 THEN RevertTsSet ELSE db.rows \subseteq tx.rows
          /\ IsSome(tx.finish_ts) <=> n >= 4
          /\ n >= 4 => Unwrap(tx.start_ts) < Unwrap(tx.finish_ts)
          /\ n < 4 => {r.log_id : r \in tx.rows} = {r.log_id : r \in db.rows}
          /\ IsSome(unit.revert_log) => (Inserted(unit.revert_log) <=> n >= 5)
          /\ IsSome(unit.apply_log) => (Inserted(unit.apply_log) <=> n >= 6)
          /\ Cardinality(tx.rows) = Cardinality(db.rows)
               + (IF n >= 5 /\ IsSome(unit.revert_log) THEN 1 ELSE 0)
               + (IF n >= 6 /\ IsSome(unit.apply_log) THEN 1 ELSE 0)

\* A unit that reverts a row stands before its commit with the reverted row
\* changed and both of its rows inserted.
C23_Witness ==
    /\ pc = "tx_commit"
    /\ IsSome(plans[idx].log_id_to_revert)
    /\ \E r \in db.rows : Some(r.log_id) = plans[idx].log_id_to_revert
    /\ Inserted(plans[idx].revert_log)
    /\ Inserted(plans[idx].apply_log)

\* read_changelog has succeeded after last_log_id reported the missing table,
\* and no unit has been applied since.
ReadWithoutTable ==
    /\ pc \in {"read", "planned"}
    /\ Len(adapter_result) = 2
    /\ adapter_result[1] = NoLogTable
    /\ adapter_result[2] = Ok

\* C24 as stated: when the log table does not exist and auto_initialize is
\* true, read_changelog treats the log as empty without creating the table,
\* so that after reading and planning only, the database has no log table.
C24_TableNotCreatedByRead ==
    (ReadWithoutTable /\ config.auto_initialize) => ~db.table

\* C24: when the log table does not exist and auto_initialize is true,
\* read_changelog treats the log as empty (last_log_id 0, next_log_id 1, no raw
\* or consolidated entry) and its get_changelog creates the empty table, so
\* that after reading and planning only, the database has an empty log table;
\* when auto_initialize is false the read fails and creates nothing.
C24_TableCreatedByRead ==
    /\ ReadWithoutTable =>
         /\ config.auto_initialize
         /\ db.table /\ db.rows = {}
         /\ last_log_id = 0
         /\ raw_logs = <<>>
         /\ pc = "read" =>
              next_log_id = 1 /\ consolidated_logs = <<>> /\ updated_logs = <<>>
    /\ (pc = "failed_read" /\ adapter_result = <<NoLogTable>>) =>
         ~config.auto_initialize /\ ~db.table

\* A run has read the missing table as empty and planned without applying.
C24_Witness ==
    /\ ReadWithoutTable
    /\ pc = "planned"
    /\ config.auto_initialize
    /\ db.table

\* The errors the server or the connection raises whatever the table.
FaultResults == {Err("PgError", c) : c \in db.faults}

\* A statement of apply_plan that names the log table is about to run.
NamesLogTable ==
    \/ pc = "tx_revert_ts" /\ IsSome(plans[idx].log_id_to_revert)
    \/ pc = "tx_revert_log" /\ IsSome(plans[idx].revert_log)
    \/ pc = "tx_apply_log" /\ IsSome(plans[idx].apply_log)

\* C25 as stated: last_log_id, get_changelog and apply_plan each fail with
\* NoLogTable when the log table is missing (or with an error of the
\* connection).
C25_AllNoLogTable ==
    [][/\ (pc = "ready" /\ pc' # "ready" /\ ~db.table) =>
            \A i \in DOMAIN adapter_result' :
               adapter_result'[i] \in {NoLogTable} \cup FaultResults
       /\ (NamesLogTable /\ ~tx.table) =>
            result' \in {NoLogTable} \cup FaultResults]_vars

\* C25: when the log table is missing, last_log_id fails with NoLogTable;
\* get_changelog does not fail for it but creates the table and returns no
\* row; a statement of apply_plan that names the table fails with the
\* driver's error for the undefined table (PgError), which ends apply_plan.
C25_MissingTable ==
    [][/\ (pc = "ready" /\ pc' # "ready" /\ ~db.table) =>
            /\ adapter_result'[1] \in {NoLogTable} \cup FaultResults
            /\ Len(adapter_result') = 2 =>
                 /\ adapter_result'[2] \in {Ok} \cup FaultResults
                 /\ adapter_result'[2] = Ok => db'.table /\ raw_logs' = <<>>
       /\ (NamesLogTable /\ ~tx.table) =>
            /\ result' \in {Err("PgError", "42P01")} \cup FaultResults
            /\ adapter_result' = <<result'>>
            /\ pc' = "failed_apply"
            /\ db' = db]_vars

\* apply_plan has failed on a database without the log table.
C25_Witness ==
    /\ pc = "failed_apply"
    /\ result = Err("PgError", "42P01")
    /\ ~db.table

-----------------------------------------------------------------------------
(* Properties of the loading of recipe files *)

\* The file the last turn of load_sql_recipes took, when its stem matched.
Took == IsSome(loader.path) /\ IsSome(Unwrap(loader.path).stem)
FileVersion == Unwrap(Unwrap(loader.path).stem)[1]
FileName == Unwrap(Unwrap(loader.path).stem)[2]
FileSql == Unwrap(loader.path).sql
LoadedLast == Took /\ pc # "failed_load"
FailedWith(e) == pc = "failed_load" /\ result.kind = e
LastRecipe == migration_scripts[Len(migration_scripts)]

\* The header metadata of the file and the kind its detector gives.
Header(key) == get(parse_sql_metadata(FileSql, <<>>), <<key>>)
DefaultKind ==
    IF loader.kind_detector = "simple_kind_detector" THEN simple_kind_detector(FileName)
    ELSE None

KindNames == {"baseline", "upgrade", "revert", "fixup"}

\* The kind of the claim: the header's when present (None when it is not a
\* kind), the detector's otherwise.
ClaimedKind ==
    IF IsSome(Header("kind"))
      THEN IF \E w \in KindNames : Header("kind") = Some(<<w>>)
             THEN Some(CHOOSE w \in KindNames : Header("kind") = Some(<<w>>))
             ELSE None
      ELSE DefaultKind

\* The version after the header-metadata override.
EffectiveVersion ==
    IF IsSome(Header("version")) THEN Unwrap(Header("version")) ELSE FileVersion

\* C26: RecipeScript::new takes the kind from the `kind` header metadata when
\* present, failing with InvalidRecipeKind when its value is not baseline,
\* upgrade, revert or fixup, and otherwise from the detector's default kind,
\* failing with InvalidRecipeKind when there is none; a recipe that loads has
\* the `version` and `name` of the header metadata when present and those of
\* the file name otherwise.
C26_KindVersionName ==
    Took =>
      /\ ClaimedKind = None => FailedWith("InvalidRecipeKind")
      /\ ClaimedKind # None =>
           \/ LoadedLast /\ LastRecipe.kind = Unwrap(ClaimedKind)
           \/ FailedWith("InvalidRevertMeta") /\ ClaimedKind = Some("revert")
           \/ FailedWith("InvalidFixupMeta") /\ ClaimedKind = Some("fixup")
      /\ LoadedLast =>
           /\ LastRecipe.version = EffectiveVersion
           /\ LastRecipe.name =
                (IF IsSome(Header("name")) THEN Unwrap(Header("name")) ELSE FileName)

\* A file has loaded with a kind header that differs from the detector's kind
\* and a version header that differs from the file name's version.
C26_Witness ==
    /\ LoadedLast
    /\ IsSome(Header("kind")) /\ IsSome(DefaultKind)
    /\ Some(LastRecipe.kind) # DefaultKind
    /\ IsSome(Header("version")) /\ LastRecipe.version # FileVersion

\* C27: a Revert recipe without old_checksum metadata fails with
\* InvalidRevertMeta and a Fixup recipe without old_checksum, new_name or
\* new_checksum fails with InvalidFixupMeta; in a Revert or Fixup that loads,
\* maximum_version is the metadata's or else the recipe's version after the
\* header override, and so is new_version of a Fixup.
C27_RevertFixupMeta ==
    Took =>
      /\ (ClaimedKind = Some("revert") /\ ~IsSome(Header("old_checksum"))) =>
            FailedWith("InvalidRevertMeta")
      /\ (/\ ClaimedKind = Some("fixup")
          /\ \E key \in {"old_checksum", "new_name", "new_checksum"} : ~IsSome(Header(key))) =>
            FailedWith("InvalidFixupMeta")
      /\ (LoadedLast /\ LastRecipe.kind \in {"revert", "fixup"}) =>
            /\ LastRecipe.old_checksum = Header("old_checksum")
            /\ LastRecipe.maximum_version =
                 (IF IsSome(Header("maximum_version")) THEN Header("maximum_version")
                  ELSE Some(EffectiveVersion))
      /\ (LoadedLast /\ LastRecipe.kind = "fixup") =>
            /\ LastRecipe.new_name = Header("new_name")
            /\ LastRecipe.new_checksum = Header("new_checksum")
            /\ LastRecipe.new_version =
                 (IF IsSome(Header("new_version")) THEN Header("new_version")
                  ELSE Some(EffectiveVersion))

\* A Fixup has loaded from a file whose header overrides the version and
\* gives neither maximum_version nor new_version.
C27_Witness ==
    /\ LoadedLast
    /\ LastRecipe.kind = "fixup"
    /\ IsSome(Header("version")) /\ EffectiveVersion # FileVersion
    /\ ~IsSome(Header("maximum_version")) /\ ~IsSome(Header("new_version"))
    /\ LastRecipe.new_version = Some(EffectiveVersion)

\* C28: the checksum of a recipe is a function of its sql text alone: two
\* recipes loaded from the same text have the same checksum whatever their
\* file names, versions, names and kinds, and loading the text again under
\* any file name and default kind gives that checksum.
C28_ChecksumOfSql ==
    /\ \A i, j \in DOMAIN migration_scripts :
          migration_scripts[i].sql = migration_scripts[j].sql
             => migration_scripts[i].checksum = migration_scripts[j].checksum
    /\ LoadedLast =>
          \A n \in FileNames, dk \in {None} \cup {Some(w) : w \in KindNames} :
             LET again == RecipeScript_new(<<"7">>, n, LastRecipe.sql, dk)
             IN  again.res.ok => again.recipe.checksum = LastRecipe.checksum

\* The same text has been loaded from two files into recipes of different
\* versions, names and kinds.
C28_Witness ==
    /\ Len(migration_scripts) = 2
    /\ migration_scripts[1].sql = migration_scripts[2].sql
    /\ migration_scripts[1].sql # <<>>
    /\ migration_scripts[1].version # migration_scripts[2].version
    /\ migration_scripts[1].name # migration_scripts[2].name
    /\ migration_scripts[1].kind # migration_scripts[2].kind

\* The leading lines of the text that start with `--`.
Leading(sql) ==
    {i \in DOMAIN sql :
       \A j \in 1..i : Len(sql[j]) >= 2 /\ sql[j][1] = "-" /\ sql[j][2] = "-"}

\* The first ':' of a line after its `--`, or 0.
FirstColon(line) ==
    LET colons == {i \in 3..Len(line) : line[i] = ":"}
    IN  IF colons = {} THEN 0 ELSE CHOOSE i \in colons : \A j \in colons : i <= j

\* s without the spaces at its ends.
Stripped(s) ==
    LET inked == {i \in DOMAIN s : s[i] # " "}
    IN  IF inked = {} THEN <<>>
        ELSE SubSeq(s, CHOOSE i \in inked : \A j \in inked : i <= j,
                       CHOOSE i \in inked : \A j \in inked : j <= i)

KeyOf(line) == Stripped(SubSeq(line, 3, FirstColon(line) - 1))
ValueOf(line) == Stripped(SubSeq(line, FirstColon(line) + 1, Len(line)))

\* C29: the header metadata of a text holds exactly the keys of its leading
\* `--` lines that have a ':', each line split at its first ':' and both
\* sides trimmed; the value of a key is that of the last such line with the
\* key; lines after the first line that does not start with `--` contribute
\* nothing.
C29_HeaderMetadata ==
    Took =>
      LET sql == FileSql
          metadata == parse_sql_metadata(sql, <<>>)
          lines == {i \in Leading(sql) : FirstColon(sql[i]) # 0}
      IN  /\ DOMAIN metadata = {KeyOf(sql[i]) : i \in lines}
          /\ \A i \in lines :
                (\A j \in lines : KeyOf(sql[j]) = KeyOf(sql[i]) => j <= i)
                   => metadata[KeyOf(sql[i])] = ValueOf(sql[i])

\* A file has loaded whose text has two leading lines of one key and a
\* `-- key: value` line after a line that does not start with `--`.
C29_Witness ==
    /\ LoadedLast
    /\ \E i, j \in Leading(FileSql) :
          /\ i < j
          /\ FirstColon(FileSql[i]) # 0 /\ FirstColon(FileSql[j]) # 0
          /\ KeyOf(FileSql[i]) = KeyOf(FileSql[j])
          /\ LastRecipe.version = ValueOf(FileSql[j])
    /\ \E i \in DOMAIN FileSql :
          /\ i \notin Leading(FileSql)
          /\ starts_with(FileSql[i], <<"-", "-">>)
          /\ FirstColon(FileSql[i]) # 0

-----------------------------------------------------------------------------
(* Order of the aggregated logs *)

\* Every entry of logs has a version Less than those of the entries after it.
StrictlyAscending(logs) ==
    \A i, j \in DOMAIN logs :
       i < j => version_comparator(logs[i].version, logs[j].version) = "Less"

\* C30: after every read_changelog and every make_plan, consolidated_logs
\* and updated_logs are strictly ascending under the version comparator: no
\* two entries have versions that compare Equal and every entry precedes the
\* entries of greater version.
C30_AscendingLogs ==
    /\ StrictlyAscending(consolidated_logs)
    /\ StrictlyAscending(updated_logs)

\* make_plan has replaced or added entries of a log of several versions.
C30_Witness ==
    /\ pc = "planned"
    /\ Len(consolidated_logs) >= 2
    /\ Len(updated_logs) >= 3
    /\ \E i \in DOMAIN consolidated_logs : consolidated_logs[i] # updated_logs[i]

-----------------------------------------------------------------------------
(* The projection of make_plan and the rows of the database *)

\* (log_id, version, name, kind, checksum) of the entries of logs.
Projection(logs) ==
    [i \in DOMAIN logs |->
       <<logs[i].log_id, logs[i].version, logs[i].name, logs[i].kind, logs[i].checksum>>]

\* The rows the first k units of the plan insert, in log_id order.
RECURSIVE RowsOfUnits(_)
RowsOfUnits(k) ==
    IF k = 0 THEN <<>>
    ELSE RowsOfUnits(k - 1) \o plans[k].revert_log \o plans[k].apply_log

ApplyingPcs == {"apply", "done", "failed_apply"} \cup TxPcs

\* C31: while a plan is applied, folding the rows of the database in log_id
\* order with the consolidation rule gives, by (log_id, version, name, kind,
\* checksum), the fold of the rows read by read_changelog followed by the rows
\* of the units committed so far; after all units have been applied it gives
\* the updated_logs make_plan computed.
C31_ProjectionMatches ==
    pc \in ApplyingPcs =>
      LET folded == Projection(FoldLogs(<<>>, OrderByLogId(db.rows)))
      IN  /\ folded = Projection(FoldLogs(FoldLogs(<<>>, raw_logs), RowsOfUnits(idx - 1)))
          /\ (pc = "done" /\ lastMigrate = "ok") => folded = Projection(updated_logs)

\* A plan with a Revert or Fixup unit and a later unit has been applied whole.
C31_Witness ==
    /\ pc = "done" /\ lastMigrate = "ok"
    /\ Len(plans) >= 2
    /\ IsSome(plans[1].revert_log)
    /\ raw_logs # <<>>
    /\ Projection(FoldLogs(<<>>, OrderByLogId(db.rows))) = Projection(updated_logs)

\* C32: in every reachable state every entry of consolidated_logs and of
\* updated_logs has a checksum, so that Phase A of make_plan never reads the
\* checksum of an entry that has none.
C32_ChecksumPresent ==
    /\ \A i \in DOMAIN consolidated_logs : IsSome(consolidated_logs[i].checksum)
    /\ \A i \in DOMAIN updated_logs : IsSome(updated_logs[i].checksum)

\* make_plan has walked a log again after projecting a revert marker into it.
C32_Witness ==
    /\ pc = "planned"
    /\ config.allow_fixes
    /\ plan_calls = 2
    /\ updated_logs # <<>>
    /\ \E i \in DOMAIN plans :
          IsSome(plans[i].revert_log) /\ ~IsSome(Unwrap(plans[i].revert_log).checksum)

\* The revert marker of unit u: a row without checksum.
HasRevertMarker(u) ==
    /\ IsSome(u.log_id_to_revert)
    /\ IsSome(u.revert_log)
    /\ ~IsSome(Unwrap(u.revert_log).checksum)

\* C33: every plan unit carries a row to insert and has the shape of the kind
\* of its recipe: a Baseline or Upgrade unit has an apply row with the
\* version, name, kind and checksum of the recipe and neither
\* log_id_to_revert nor a revert marker; a Revert unit has log_id_to_revert
\* and a revert marker without checksum and no apply row; a Fixup unit has
\* log_id_to_revert, a revert marker without checksum and an apply row.
C33_UnitShape ==
    \A i \in DOMAIN plans :
       LET u == plans[i]
           r == u.recipe
       IN  /\ IsSome(u.revert_log) \/ IsSome(u.apply_log)
           /\ r.kind \in {"baseline", "upgrade"} =>
                /\ IsSome(u.apply_log)
                /\ Unwrap(u.apply_log).version = r.version
                /\ Unwrap(u.apply_log).name = Some(r.name)
                /\ Unwrap(u.apply_log).kind = r.kind
                /\ Unwrap(u.apply_log).checksum = Some(r.checksum)
                /\ ~IsSome(u.log_id_to_revert) /\ ~IsSome(u.revert_log)
           /\ r.kind = "revert" => HasRevertMarker(u) /\ ~IsSome(u.apply_log)
           /\ r.kind = "fixup" => HasRevertMarker(u) /\ IsSome(u.apply_log)

\* The plans hold a Revert unit, a Fixup unit and an Upgrade unit.
C33_Witness ==
    {plans[i].recipe.kind : i \in DOMAIN plans} \cap {"revert", "fixup", "upgrade"} = {"revert", "fixup", "upgrade"}

\* The entries of the log as read that have a matching recipe in the set, the
\* current version being the newest version of the log.
MatchedEntries ==
    {i \in DOMAIN consolidated_logs :
       \E k \in DOMAIN recipes :
          match_fix_recipe(consolidated_logs[i].version,
                           Unwrap(consolidated_logs[i].checksum), recipes[k],
                           consolidated_logs[Len(consolidated_logs)].version)}

\* C34: recipes_for_version returns every Revert and Fixup recipe of the
\* version it is asked for, and the first make_plan after read_changelog, with
\* allow_fixes, emits a Revert or Fixup unit whenever some entry of the log
\* has a matching recipe.
C34_AllCandidates ==
    (pc \in {"planned", "failed_plan"} /\ plan_calls = 1 /\ config.allow_fixes) =>
       /\ \A i \in DOMAIN recipes :
             recipes[i].kind \in {"revert", "fixup"} =>
                \A slice \in recipes_for_version(recipes[i].version) :
                   \E k \in DOMAIN slice : slice[k] = recipes[i]
       /\ MatchedEntries # {} => \E i \in DOMAIN plans : IsSome(plans[i].revert_log)

\* C35: when make_plan returns an error (NoBaseline or UnknownBaseline),
\* plans, updated_logs and next_log_id are as before the call.
C35_ErrorLeavesState ==
    [][pc' = "failed_plan" =>
          /\ result'.kind \in {"NoBaseline", "UnknownBaseline"}
          /\ plans' = plans
          /\ updated_logs' = updated_logs
          /\ next_log_id' = next_log_id]_vars

\* C36: with allow_fixes = false, a make_plan that follows a make_plan
\* without a read_changelog in between appends no plan unit and leaves
\* updated_logs and next_log_id unchanged.
C36_SecondPlanIsEmpty ==
    [][(/\ pc = "planned"
        /\ plan_calls' = plan_calls + 1
        /\ ~config.allow_fixes) =>
          /\ pc' = "planned"
          /\ plans' = plans
          /\ updated_logs' = updated_logs
          /\ next_log_id' = next_log_id]_vars

\* make_plan has been called twice on a log to which the first call added
\* a baseline and upgrades.
C36_Witness ==
    /\ pc = "planned"
    /\ plan_calls = 2
    /\ ~config.allow_fixes
    /\ Len(plans) >= 2
    /\ consolidated_logs = <<>>

\* Planning with the recipe sets set_recipes accepts of the recipe files of
\* FilePool, where one version can have several Revert/Fixup recipes.
FixRecipes ==
    {r.recipes : r \in {q \in UNION {order_recipes(Unwrapped(SubSeqOf(FilePool, S))) :
                                       S \in SUBSET (DOMAIN FilePool)} :
                          ~IsSome(q.err)}}

InitFix ==
    /\ comparator = "simple_compare"
    /\ loader = NoLoader
    /\ migration_scripts = <<>>
    /\ \E rs \in FixRecipes :
         \E ai \in BOOLEAN, af \in BOOLEAN :
           ReadyMigrator(Config(ai, None, None, af), rs)
    /\ InitCaller
    /\ pc = "ready"
    /\ db \in PlanDbs
    /\ db.table => ~config.auto_initialize

SpecFix == InitFix /\ [][NextPlan]_vars

\* What make_plan reads of a log: the versions and checksums of its entries.
Content(logs) == [i \in DOMAIN logs |-> <<logs[i].version, logs[i].checksum>>]

\* C37: fixup planning terminates: with allow_fixes and a recipe set accepted
\* by set_recipes, repeated make_plan calls emit a Revert or Fixup unit only
\* finitely often.  A call that emits one therefore leaves updated_logs with
\* other versions and checksums than it found: a call that restores them is
\* followed by calls that emit the same unit again, without end.
C37_FixupsTerminate ==
    [][(/\ plan_calls' = plan_calls + 1
        /\ config.allow_fixes
        /\ Len(plans') > Len(plans)
        /\ IsSome(plans'[Len(plans) + 1].revert_log)) =>
          Content(updated_logs') # Content(updated_logs)]_vars

-----------------------------------------------------------------------------
(* Two runs of the command that apply the same plan to one database *)

PeerIds == {1, 2}
Other(i) == 3 - i

\* self.transaction() of a run next to another: the statements it has executed
\* and not yet committed (the server isolates them from the other connection).
peer_transaction ==
    [open |-> TRUE, start_ts |-> None, finish_ts |-> None, sql |-> <<>>,
     reverted |-> {}, inserted |-> {}]

\* Two runs with the same recipes and options have read the same changelog and
\* hold the same plans; each enters the loop of migrate with its own connection.
PeersBegin ==
    /\ pc \in {"planned", "checked"}
    /\ Len(plans) > 0
    /\ peers = NoPeers
    /\ peers' = [i \in PeerIds |-> [pc |-> "apply", idx |-> 1, tx |-> NoTx,
                                    result |-> NoResult]]
    /\ pc' = "apply"
    /\ UNCHANGED <<migratorVars, db, tx, adapter_result, idx, result, lastMigrate, runs,
                   plan_calls>>

PeerUnchanged == UNCHANGED <<migratorVars, tx, adapter_result, pc, idx, result, lastMigrate,
                             runs, plan_calls>>

PeerAt(i, at) == peers # NoPeers /\ peers[i].pc = at

PeerStep(i, next, t) == peers' = [peers EXCEPT ![i].pc = next, ![i].tx = t]

\* An await of apply_plan returns an error: the transaction is dropped and
\* the loop of migrate breaks.
PeerError(i, code) ==
    /\ peers' = [peers EXCEPT ![i] = [pc |-> AfterError(peers[i].idx).pc,
                                      idx |-> AfterError(peers[i].idx).idx,
                                      tx |-> NoTx,
                                      result |-> Err("PgError", code)]]
    /\ UNCHANGED db

PeerApplyPlanBegin(i) ==
    /\ PeerAt(i, "apply")
    /\ PeerStep(i, "tx_start_ts", peer_transaction)
    /\ UNCHANGED db
    /\ PeerUnchanged

\* SELECT clock_timestamp(): the clock of the server, read by both connections.
PeerStartTs(i) ==
    /\ PeerAt(i, "tx_start_ts")
    /\ PeerStep(i, "tx_batch_execute", [peers[i].tx EXCEPT !.start_ts = Some(db.clock)])
    /\ db' = [db EXCEPT !.clock = db.clock + 1]
    /\ PeerUnchanged

PeerBatchExecute(i) ==
    /\ PeerAt(i, "tx_batch_execute")
    /\ PeerStep(i, "tx_revert_ts",
                [peers[i].tx EXCEPT !.sql = Append(@, plans[peers[i].idx].recipe.sql)])
    /\ UNCHANGED db
    /\ PeerUnchanged

\* A row changed or a key inserted by the open transaction of the other
\* connection: the statement waits until that transaction ends.
RowLocked(i, log_id) ==
    /\ peers[Other(i)].tx.open
    /\ log_id \in peers[Other(i)].tx.reverted
KeyPending(i, log_id) ==
    /\ peers[Other(i)].tx.open
    /\ \E r \in peers[Other(i)].tx.inserted : r.log_id = log_id

PeerRevertTs(i) ==
    /\ PeerAt(i, "tx_revert_ts")
    /\ LET unit == plans[peers[i].idx]
       IN  IF ~IsSome(unit.log_id_to_revert)
             THEN PeerStep(i, "tx_finish_ts", peers[i].tx) /\ UNCHANGED db
           ELSE IF ~db.table THEN PeerError(i, "42P01")
           ELSE /\ ~RowLocked(i, Unwrap(unit.log_id_to_revert))
                /\ PeerStep(i, "tx_finish_ts",
                            [peers[i].tx EXCEPT !.reverted =
                                                  @ \cup {Unwrap(unit.log_id_to_revert)}])
                /\ UNCHANGED db
    /\ PeerUnchanged

PeerFinishTs(i) ==
    /\ PeerAt(i, "tx_finish_ts")
    /\ PeerStep(i, "tx_revert_log", [peers[i].tx EXCEPT !.finish_ts = Some(db.clock)])
    /\ db' = [db EXCEPT !.clock = db.clock + 1]
    /\ PeerUnchanged

PeerInsertError_own_rows(d, t, log) ==
    IF ~d.table THEN "42P01"
    ELSE IF \E r \in t.inserted : r.log_id = log.log_id THEN "23505"
    ELSE ""

\* SQLSTATE of the INSERT: log_id is the primary key of the table.
PeerInsertError(d, t, log) ==
    IF ~d.table THEN "42P01"
    ELSE IF \E r \in d.rows \cup t.inserted : r.log_id = log.log_id THEN "23505"
    ELSE ""

PeerInsert(i, log, next) ==
    IF ~IsSome(log) THEN PeerStep(i, next, peers[i].tx) /\ UNCHANGED db
    ELSE IF PeerInsertError(db, peers[i].tx, Unwrap(log)) # ""
      THEN PeerError(i, PeerInsertError(db, peers[i].tx, Unwrap(log)))
    ELSE /\ ~KeyPending(i, Unwrap(log).log_id)
         /\ PeerStep(i, next,
                     [peers[i].tx EXCEPT !.inserted =
                        @ \cup {InsertedRow(Unwrap(log), peers[i].tx.start_ts,
                                            peers[i].tx.finish_ts)}])
         /\ UNCHANGED db

PeerRevertLog(i) ==
    /\ PeerAt(i, "tx_revert_log")
    /\ PeerInsert(i, plans[peers[i].idx].revert_log, "tx_apply_log")
    /\ PeerUnchanged

PeerApplyLog(i) ==
    /\ PeerAt(i, "tx_apply_log")
    /\ PeerInsert(i, plans[peers[i].idx].apply_log, "tx_commit")
    /\ PeerUnchanged

\* The rows of the table after the UPDATEs of a transaction.
RECURSIVE RevertAll(_, _, _)
RevertAll(rows, ids, ts) ==
    IF ids = {} THEN rows
    ELSE LET id == CHOOSE x \in ids : TRUE
         IN  RevertAll(update_revert_ts(rows, id, ts), ids \ {id}, ts)

\* transaction.commit(): the statements of the transaction take effect.
peer_commit(d, t) ==
    [d EXCEPT !.rows = RevertAll(d.rows, t.reverted, t.start_ts) \cup t.inserted,
              !.schema = d.schema \o t.sql]

PeerCommit(i) ==
    /\ PeerAt(i, "tx_commit")
    /\ db' = peer_commit(db, peers[i].tx)
    /\ peers' = [peers EXCEPT ![i] =
                   [pc |-> IF peers[i].idx < Len(plans) THEN "apply" ELSE "done",
                    idx |-> peers[i].idx + 1,
                    tx |-> NoTx,
                    result |-> Ok]]
    /\ PeerUnchanged

PeerFail(i) ==
    /\ peers # NoPeers
    /\ peers[i].pc \in TxPcs \cup {"apply"}
    /\ \E code \in db.faults : PeerError(i, code)
    /\ PeerUnchanged

InitPeers ==
    /\ comparator = "simple_compare"
    /\ loader = NoLoader
    /\ migration_scripts = <<>>
    /\ \E ai \in BOOLEAN, tv \in {None, Some(2)}, af \in BOOLEAN :
         \E rs \in RunRecipes : ReadyMigrator(Config(ai, None, tv, af), rs)
    /\ InitCaller
    /\ pc = "ready"
    /\ \E d \in RunDbs, f \in {{}, {"08006"}} : db = [d EXCEPT !.faults = f]
    /\ db.table => ~config.auto_initialize

NextPeers ==
    \/ ReadChangelog \/ MakePlanOnce \/ CheckUpdatedLog \/ PeersBegin
    \/ \E i \in PeerIds :
         \/ PeerApplyPlanBegin(i) \/ PeerStartTs(i) \/ PeerBatchExecute(i)
         \/ PeerRevertTs(i) \/ PeerFinishTs(i) \/ PeerRevertLog(i) \/ PeerApplyLog(i)
         \/ PeerCommit(i) \/ PeerFail(i)

SpecPeers == InitPeers /\ [][NextPeers]_vars

\* The units a run has committed: its loop moves on after a commit only.
Committed(i) == 1 .. (peers[i].idx - 1)

C38_State ==
    peers # NoPeers =>
      /\ \A r, q \in db.rows : r.log_id = q.log_id => r = q
      /\ Committed(1) \cap Committed(2) = {}
      /\ \A i \in PeerIds :
           (peers[i].pc = "failed_apply" /\ peers[i].result.code = "23505") =>
             /\ peers[i].idx \in Committed(Other(i))
             /\ ~peers[i].tx.open

C38_Step ==
    (peers # NoPeers /\ peers' # NoPeers) =>
      /\ \A i \in PeerIds : peers[i].pc = "failed_apply" => peers'[i] = peers[i]
      /\ (db'.schema # db.schema \/ db'.rows # db.rows) =>
           \E i \in PeerIds :
             /\ peers'[i].idx = peers[i].idx + 1
             /\ peers[i].idx \notin Committed(Other(i))
             /\ db'.schema = Append(db.schema, plans[peers[i].idx].recipe.sql)

\* C38: when two runs that planned the same units from the same changelog
\* state apply them concurrently, each log_id is inserted by at most one
\* committed transaction: the run that loses on a log_id fails on the primary
\* key (23505), its transaction with the recipe SQL is dropped and its loop
\* stops, and no unit is committed by both runs.
C38_OneCommitPerLogId == [](C38_State) /\ [][C38_Step]_vars

\* One run has applied the whole plan and the other failed on the primary key.
C38_Witness ==
    /\ peers # NoPeers
    /\ \E i \in PeerIds :
         /\ peers[i].pc = "failed_apply"
         /\ peers[i].result.code = "23505"
         /\ peers[Other(i)].pc = "done"
         /\ Len(plans) > 1

-----------------------------------------------------------------------------
(* Verified runs from a fresh database, the recipe files changing *)

\* migrator_command migrates after check_updated_log has passed.
MigrateChecked == pc = "checked" /\ Migrate

InitVerified ==
    /\ comparator = "simple_compare"
    /\ loader = NoLoader
    /\ migration_scripts = <<>>
    /\ \E ai \in BOOLEAN, sb \in {None, Some(2)}, af \in BOOLEAN :
         \E rs \in BaseRecipes : ReadyMigrator(Config(ai, sb, None, af), rs)
    /\ InitCaller
    /\ pc = "ready"
    /\ db \in {NoTableDb, EmptyDb}
    /\ db.table => ~config.auto_initialize

NextVerified ==
    \/ ReadChangelog \/ MakePlanOnce \/ CheckUpdatedLog \/ MigrateChecked
    \/ ApplyPlanBegin \/ TxStartTs \/ TxBatchExecute \/ TxRevertTs \/ TxFinishTs
    \/ TxRevertLog \/ TxApplyLog \/ TxCommit
    \/ NewRunRecipes

SpecVerified == InitVerified /\ [][NextVerified]_vars

\* C39: in every database state reached from an empty database by runs that
\* pass check_updated_log and apply their whole plan, the recipe sets changing
\* between runs, the lowest-version entry of the consolidated log, when there
\* is one, has kind baseline.
C39_LowestIsBaseline ==
    (pc \in {"ready", "done"} /\ Len(EffectiveLog) > 0) =>
      EffectiveLog[1].kind = "baseline"

====
